---- MODULE Spec2Model ----
(***************************************************************************)
(* cMindX: the dashboard's variant promotion state machine over the        *)
(* Firestore "variants" collection, the event aggregators of the           *)
(* dashboard and of the agent / landing-agent endpoints, and the route     *)
(* handlers over the settings documents.                                   *)
(*                                                                         *)
(* Spec        dashboard clients saving, promoting and disabling variants  *)
(* SpecStats   the dashboard's derived statistics over an event window     *)
(* SpecAgent   the per-variant aggregation of the agent endpoints          *)
(* SpecScorer  the two fallback generators over a statistics list          *)
(* SpecPages   the persona-page and landing-page endpoints                 *)
(* SpecPoll    the dashboard polling the events collection                 *)
(* SpecRoutes  every route handler, promote-landing split at its writes    *)
(* SpecLive    one dashboard beside the routes of the live variant         *)
(* SpecFetch   the dashboard's request to the agent endpoint               *)
(* SpecFlags   one dashboard's in-progress flags and outcome texts         *)
(***************************************************************************)
EXTENDS Integers, Sequences, FiniteSets, TLC

(* ---------------------------------------------------------------- bounds *)

\* Cap on the number of documents ever added to the variants collection.
MaxVariants == 3

\* Cap on the length of an event window drawn from the events collection.
MaxEvents == 2

\* Cap on the length of a statistics list handed to a fallback generator.
MaxStats == 2

\* Cap on the length of a window read by the persona-page and landing-page
\* endpoints.
MaxSessionEvents == 3

\* Cap on the number of loadEvents calls the polling interval makes.
MaxPolls == 3

\* Cap on the number of requests the settings routes receive.
MaxRequests == 2

\* Dashboard clients (browser tabs) working on the same Firestore project.
Clients == {"c1", "c2"}

NULL == "null"

\* savedVariantId when no variant is saved (document ids are 1, 2, ...).
NoId == 0

VARIABLES
    \* Firestore: variants collection, document i holds status variants[i]
    variants,
    \* DashboardPage state, one copy per client
    agentData, savedVariantId,
    promoteMessage, promoteError,
    disableMessage, disableError,
    \* in-flight promoteLastSavedVariant: position, closure value of
    \* savedVariantId, ids of the snapshot returned by getDocs
    promotePc, promoteTarget, promoteSnap,
    \* in-flight disableLiveVariants: position, ids the batch updates
    disablePc, disableSnap,
    \* event window (events ordered by ts desc, limited) and what is derived
    events, variantStats, uniqueSessions, agentResp,
    \* the dashboard's event list under each choice of the variant filter
    filteredEvents,
    \* what the text-generation call of the answered request came to
    aiOutcome,
    \* a fallback generator's argument and its return value
    scorerIn, scorerOut,
    \* persona-page / landing-page: the handler's bySession, and the documents
    \* of the personaPages and landingPages collections
    bySession, pageStore,
    \* the dashboard's winner ("Current winner")
    currentWinner,
    \* Firestore: settings/liveVariant, settings/landingPage, settings/agent;
    \* the promote-landing requests that made their first write; the number
    \* of requests the settings routes received and their last response
    liveVariant, landingPointer, agentSettings, landingReqs, requests, routeReq, routeResp,
    \* the dashboard's polling: the loading flag, the loadEvents calls made,
    \* and the call whose response resolved last
    loading, polls, lastResolved,
    \* DashboardPage state of runAgent and saveSuggestedVariant
    agentLoading, agentError, savingVariant, saveError

storeVars == <<variants>>
saveVars == <<agentData, savedVariantId>>
promoteVars == <<promoteMessage, promoteError, promotePc, promoteTarget, promoteSnap>>
disableVars == <<disableMessage, disableError, disablePc, disableSnap>>
scorerVars == <<scorerIn, scorerOut>>
pageVars == <<bySession, pageStore>>
\* Everything outside the variants collection and the dashboard's handlers.
routeVars ==
    <<liveVariant, landingPointer, agentSettings, landingReqs, requests, routeReq, routeResp>>
pollVars == <<loading, polls, lastResolved>>
flagVars == <<agentLoading, agentError, savingVariant, saveError>>
extVars == <<routeVars, pollVars, flagVars>>
statsVars == <<events, variantStats, uniqueSessions, agentResp, filteredEvents,
               aiOutcome, scorerVars, pageVars, currentWinner, extVars>>
dashVars == <<storeVars, saveVars, promoteVars, disableVars>>
vars == <<dashVars, statsVars>>

(* ------------------------------------------------- variants collection *)
(* A handler is split where it awaits Firestore. Its synchronous prefix    *)
(* (setting the in-progress flag, clearing messages) touches only the      *)
(* client's own state and is taken together with the resolution of its     *)
(* first await; runAgent and saveSuggestedVariant, which await once, are   *)
(* one action each.                                                        *)

\* Messages the dashboard shows.
PromoteOkMsg == "Variant promoted to live. New visitors will see it once the landing page fetches it."
PromoteErrMsg == "Failed to promote variant to live."
DisableNoopMsg == "No live variant was active."
DisableOkMsg == "Live AI copy disabled. A/B mode restored."
DisableErrMsg == "Failed to disable live AI copy."

Ids == DOMAIN variants

LiveIds == {id \in Ids : variants[id] = "live"}

\* The in-progress flags: true from the handler's start to its finally.
promoting(c) == promotePc[c] # "idle"
disablingLive(c) == disablePc[c] # "idle"

\* PromoteStatus with the isTarget test lost.
PromoteStatusMutant(id, target) == "live"

\* snap.forEach in promoteLastSavedVariant: one update per snapshot document.
PromoteStatus(id, target) == IF id = target THEN "live" ELSE "archived"

\* PromoteBatch applying only the target's update.
PromoteBatchMutant(store, snap, target) ==
    [id \in DOMAIN store |->
        IF id \in snap /\ id = target THEN PromoteStatus(id, target) ELSE store[id]]

\* batch.commit() of the promote batch: all updates of the batch at once.
PromoteBatch(store, snap, target) ==
    [id \in DOMAIN store |->
        IF id \in snap THEN PromoteStatus(id, target) ELSE store[id]]

\* The status a new document gets in saveSuggestedVariant.
NewVariantStatus == "testing"

\* DisableSelect taking every document that is not archived yet.
DisableSelectMutant(store) == {id \in DOMAIN store : store[id] # "archived"}

\* snap.forEach in disableLiveVariants: the documents the batch updates.
DisableSelect(store) == {id \in DOMAIN store : store[id] = "live"}

\* batch.commit() of the disable batch.
DisableBatch(store, snap) ==
    [id \in DOMAIN store |-> IF id \in snap THEN "archived" ELSE store[id]]

StoreInit ==
    /\ variants = <<>>
    /\ agentData = [c \in Clients |-> NULL]
    /\ savedVariantId = [c \in Clients |-> NoId]
    /\ promoteMessage = [c \in Clients |-> NULL]
    /\ promoteError = [c \in Clients |-> NULL]
    /\ disableMessage = [c \in Clients |-> NULL]
    /\ disableError = [c \in Clients |-> NULL]
    /\ promotePc = [c \in Clients |-> "idle"]
    /\ promoteTarget = [c \in Clients |-> NoId]
    /\ promoteSnap = [c \in Clients |-> {}]
    /\ disablePc = [c \in Clients |-> "idle"]
    /\ disableSnap = [c \in Clients |-> {}]

\* An absent document.
NoDoc == <<>>

\* The settings documents absent, no request in flight, no poll made, and
\* the dashboard's flags as useState initialises them.
ExtIdle ==
    /\ liveVariant = NoDoc
    /\ landingPointer = NoDoc
    /\ agentSettings = NoDoc
    /\ landingReqs = <<>>
    /\ requests = 0
    /\ routeReq = <<>>
    /\ routeResp = <<>>
    /\ loading = TRUE
    /\ polls = <<>>
    /\ lastResolved = 0
    /\ agentLoading = [c \in Clients |-> FALSE]
    /\ agentError = [c \in Clients |-> NULL]
    /\ savingVariant = [c \in Clients |-> FALSE]
    /\ saveError = [c \in Clients |-> NULL]

\* No window loaded, nothing rendered, no request answered.
StatsIdle ==
    /\ events = <<>>
    /\ variantStats = <<>>
    /\ uniqueSessions = 0
    /\ agentResp = <<>>
    /\ filteredEvents = <<>>
    /\ aiOutcome = <<>>
    /\ scorerIn = <<>>
    /\ scorerOut = <<>>
    /\ bySession = <<>>
    /\ pageStore = {}
    /\ currentWinner = NULL
    /\ ExtIdle

Init == StoreInit /\ StatsIdle

\* What runAgent and saveSuggestedVariant reset before their await.
ResetSaved(c) ==
    /\ promoteMessage' = [promoteMessage EXCEPT ![c] = NULL]
    /\ promoteError' = [promoteError EXCEPT ![c] = NULL]

\* runAgent, the response carrying a suggestion.
RunAgentOk(c) ==
    /\ agentData' = [agentData EXCEPT ![c] = "suggestion"]
    /\ savedVariantId' = [savedVariantId EXCEPT ![c] = NoId]
    /\ ResetSaved(c)
    /\ UNCHANGED <<storeVars, promotePc, promoteTarget, promoteSnap, disableVars, statsVars>>

\* runAgent, failing: !res.ok, !json.ok, or the fetch threw.
RunAgentFail(c) ==
    /\ savedVariantId' = [savedVariantId EXCEPT ![c] = NoId]
    /\ ResetSaved(c)
    /\ UNCHANGED <<storeVars, agentData, promotePc, promoteTarget, promoteSnap,
                   disableVars, statsVars>>

\* saveSuggestedVariant, addDoc resolved: the document exists with a fresh id.
SaveOk(c) ==
    /\ agentData[c] # NULL
    /\ Len(variants) < MaxVariants
    /\ variants' = Append(variants, NewVariantStatus)
    /\ savedVariantId' = [savedVariantId EXCEPT ![c] = Len(variants) + 1]
    /\ ResetSaved(c)
    /\ UNCHANGED <<agentData, promotePc, promoteTarget, promoteSnap, disableVars, statsVars>>

\* saveSuggestedVariant, addDoc rejected.
SaveFail(c) ==
    /\ agentData[c] # NULL
    /\ savedVariantId' = [savedVariantId EXCEPT ![c] = NoId]
    /\ ResetSaved(c)
    /\ UNCHANGED <<storeVars, agentData, promotePc, promoteTarget, promoteSnap,
                   disableVars, statsVars>>

\* promoteLastSavedVariant to the resolution of getDocs: the batch is built
\* from the snapshot and commit is issued. The handler closes over the
\* savedVariantId of the render it was created in; the button is disabled
\* while promoting.
PromoteRead(c) ==
    /\ savedVariantId[c] # NoId
    /\ ~promoting(c)
    /\ promoteError' = [promoteError EXCEPT ![c] = NULL]
    /\ promoteMessage' = [promoteMessage EXCEPT ![c] = NULL]
    /\ promoteTarget' = [promoteTarget EXCEPT ![c] = savedVariantId[c]]
    /\ promoteSnap' = [promoteSnap EXCEPT ![c] = Ids]
    /\ promotePc' = [promotePc EXCEPT ![c] = "committing"]
    /\ UNCHANGED <<storeVars, saveVars, disableVars, statsVars>>

\* promoteLastSavedVariant, getDocs rejected: catch and finally.
PromoteReadFail(c) ==
    /\ savedVariantId[c] # NoId
    /\ ~promoting(c)
    /\ promoteError' = [promoteError EXCEPT ![c] = PromoteErrMsg]
    /\ promoteMessage' = [promoteMessage EXCEPT ![c] = NULL]
    /\ UNCHANGED <<storeVars, saveVars, promotePc, promoteTarget, promoteSnap,
                   disableVars, statsVars>>

\* batch.commit() resolved.
PromoteCommitOk(c) ==
    /\ promotePc[c] = "committing"
    /\ variants' = PromoteBatch(variants, promoteSnap[c], promoteTarget[c])
    /\ promoteMessage' = [promoteMessage EXCEPT ![c] = PromoteOkMsg]
    /\ promotePc' = [promotePc EXCEPT ![c] = "idle"]
    /\ promoteSnap' = [promoteSnap EXCEPT ![c] = {}]
    /\ promoteTarget' = [promoteTarget EXCEPT ![c] = NoId]
    /\ UNCHANGED <<saveVars, promoteError, disableVars, statsVars>>

\* batch.commit() rejected, Firestore applying none of the batch: catch and
\* finally.
PromoteCommitFail(c) ==
    /\ promotePc[c] = "committing"
    /\ promoteError' = [promoteError EXCEPT ![c] = PromoteErrMsg]
    /\ promotePc' = [promotePc EXCEPT ![c] = "idle"]
    /\ promoteSnap' = [promoteSnap EXCEPT ![c] = {}]
    /\ promoteTarget' = [promoteTarget EXCEPT ![c] = NoId]
    /\ UNCHANGED <<storeVars, saveVars, promoteMessage, disableVars, statsVars>>

\* disableLiveVariants, getDocs resolved with no live document: no commit,
\* the no-op message; the button is disabled while disablingLive.
DisableReadNone(c) ==
    /\ ~disablingLive(c)
    /\ DisableSelect(variants) = {}
    /\ disableMessage' = [disableMessage EXCEPT ![c] = DisableNoopMsg]
    /\ disableError' = [disableError EXCEPT ![c] = NULL]
    /\ UNCHANGED <<storeVars, saveVars, promoteVars, disablePc, disableSnap, statsVars>>

\* disableLiveVariants, getDocs resolved with live documents: the batch is
\* built and commit is issued.
DisableReadSome(c) ==
    /\ ~disablingLive(c)
    /\ DisableSelect(variants) # {}
    /\ disableSnap' = [disableSnap EXCEPT ![c] = DisableSelect(variants)]
    /\ disablePc' = [disablePc EXCEPT ![c] = "committing"]
    /\ disableMessage' = [disableMessage EXCEPT ![c] = NULL]
    /\ disableError' = [disableError EXCEPT ![c] = NULL]
    /\ UNCHANGED <<storeVars, saveVars, promoteVars, statsVars>>

\* disableLiveVariants, getDocs rejected: catch and finally.
DisableReadFail(c) ==
    /\ ~disablingLive(c)
    /\ disableError' = [disableError EXCEPT ![c] = DisableErrMsg]
    /\ disableMessage' = [disableMessage EXCEPT ![c] = NULL]
    /\ UNCHANGED <<storeVars, saveVars, promoteVars, disablePc, disableSnap, statsVars>>

\* batch.commit() resolved.
DisableCommitOk(c) ==
    /\ disablePc[c] = "committing"
    /\ variants' = DisableBatch(variants, disableSnap[c])
    /\ disableMessage' = [disableMessage EXCEPT ![c] = DisableOkMsg]
    /\ disablePc' = [disablePc EXCEPT ![c] = "idle"]
    /\ disableSnap' = [disableSnap EXCEPT ![c] = {}]
    /\ UNCHANGED <<saveVars, promoteVars, disableError, statsVars>>

\* batch.commit() rejected: catch and finally.
DisableCommitFail(c) ==
    /\ disablePc[c] = "committing"
    /\ disableError' = [disableError EXCEPT ![c] = DisableErrMsg]
    /\ disablePc' = [disablePc EXCEPT ![c] = "idle"]
    /\ disableSnap' = [disableSnap EXCEPT ![c] = {}]
    /\ UNCHANGED <<storeVars, saveVars, promoteVars, disableMessage, statsVars>>

Next ==
    \E c \in Clients :
        \/ RunAgentOk(c)
        \/ RunAgentFail(c)
        \/ SaveOk(c)
        \/ SaveFail(c)
        \/ PromoteRead(c)
        \/ PromoteReadFail(c)
        \/ PromoteCommitOk(c)
        \/ PromoteCommitFail(c)
        \/ DisableReadNone(c)
        \/ DisableReadSome(c)
        \/ DisableReadFail(c)
        \/ DisableCommitOk(c)
        \/ DisableCommitFail(c)

Spec == Init /\ [][Next]_vars

(* ------------------------------------------- claims on the collection *)

\* C1: after a promote of variant X commits, the collection holds exactly
\* one live variant, X, and every other variant is archived.
C1_PromoteLeavesOnlyTargetLive ==
    [][\A c \in Clients :
        PromoteCommitOk(c) =>
            \A id \in DOMAIN variants' :
                variants'[id] = IF id = promoteTarget[c] THEN "live" ELSE "archived"]_vars

\* C2: at most one variant is live, in every reachable state.
C2_AtMostOneLive == Cardinality(LiveIds) <= 1

\* C3: a promote is all-or-nothing. The step that ends an in-flight promote
\* either applies every update of its batch and reports success, or leaves
\* every status as it was and reports the failure without a success message.
C3_PromoteAllOrNothing ==
    [][\A c \in Clients :
        (promotePc[c] = "committing" /\ promotePc'[c] = "idle") =>
            \/ /\ \A id \in promoteSnap[c] :
                      variants'[id] = IF id = promoteTarget[c] THEN "live" ELSE "archived"
               /\ promoteMessage'[c] = PromoteOkMsg
               /\ promoteError'[c] = NULL
            \/ /\ variants' = variants
               /\ promoteError'[c] = PromoteErrMsg
               /\ promoteMessage'[c] = NULL]_vars

\* C3 witness: one client's promote was rejected and reported, another's was
\* applied to a snapshot of several documents.
C3_Witness ==
    /\ promoteError["c1"] = PromoteErrMsg
    /\ promoteMessage["c1"] = NULL
    /\ promoteMessage["c2"] = PromoteOkMsg
    /\ Cardinality(LiveIds) = 1
    /\ \E id \in Ids : variants[id] = "archived"

\* C4: a disable whose read finds no live variant commits nothing, leaves
\* every status unchanged and reports the no-op message, not success, not an
\* error.
C4_DisableNoop ==
    [][\A c \in Clients :
        (LiveIds = {} /\ (DisableReadNone(c) \/ DisableReadSome(c))) =>
            /\ variants' = variants
            /\ disablePc'[c] = "idle"
            /\ disableMessage'[c] = DisableNoopMsg
            /\ disableError'[c] = NULL]_vars

\* C4 witness: the no-op was reported over a collection that holds testing
\* and archived variants and no live one.
C4_Witness ==
    \E c \in Clients :
        /\ disableMessage[c] = DisableNoopMsg
        /\ disableError[c] = NULL
        /\ LiveIds = {}
        /\ \E id \in Ids : variants[id] = "testing"
        /\ \E id \in Ids : variants[id] = "archived"

\* C5: after a disable commits, every variant that was live when it read the
\* collection is archived and no variant is live. (The claim's third part,
\* that testing and archived variants keep their status, compares with a
\* state the handler does not keep.)
C5_DisableLeavesNoLive ==
    [][\A c \in Clients :
        DisableCommitOk(c) =>
            /\ \A id \in disableSnap[c] : variants'[id] = "archived"
            /\ \A id \in DOMAIN variants' : variants'[id] # "live"]_vars

\* C6: a variant is created testing, and a variant becomes live only in the
\* step that commits a promote naming it.
C6_LiveOnlyByPromote ==
    [][\A id \in DOMAIN variants' :
        /\ id \notin DOMAIN variants => variants'[id] = "testing"
        /\ (variants'[id] = "live" /\ (id \in DOMAIN variants => variants[id] # "live")) =>
               \E c \in Clients :
                   /\ promotePc[c] = "committing"
                   /\ promoteTarget[c] = id
                   /\ promotePc'[c] = "idle"
                   /\ promoteMessage'[c] = PromoteOkMsg]_vars

\* C6 witness: variants in all three statuses, the live one promoted by a
\* client that named it.
C6_Witness ==
    /\ \E id \in Ids : variants[id] = "testing"
    /\ \E id \in Ids : variants[id] = "archived"
    /\ \E c \in Clients :
           /\ promoteMessage[c] = PromoteOkMsg
           /\ savedVariantId[c] \in LiveIds

(* ------------------------------------------------------- event windows *)

\* sessionId values of the events.
SessionIds == {"s1", "s2"}

\* variantId of an event: "A", "B", missing, or a value that is neither
\* ("a" differs from "A" by case only).
VariantIds == {"A", "B", NULL, "C", "a"}

\* payload.scrollPercent: absent, a number, or a string that is no number.
Absent == [t |-> "absent", v |-> 0]
Num(n) == [t |-> "number", v |-> n]
Str == [t |-> "string", v |-> 0]
ScrollPercents == {Absent, Str, Num(0), Num(40)}

\* AnalyticsEvent. A click's payload carries no scrollPercent.
AnalyticsEvent ==
    [sessionId : SessionIds, variantId : VariantIds,
     eventType : {"scroll"}, scrollPercent : ScrollPercents]
    \cup
    [sessionId : SessionIds, variantId : VariantIds,
     eventType : {"click"}, scrollPercent : {Absent}]

\* The windows a query of the events collection can return, up to MaxEvents.
Windows == UNION {[1..n -> AnalyticsEvent] : n \in 0..MaxEvents}

\* The window of the worked example: A scrolls 40 and 60 and clicks once, B
\* scrolls 90.
ExampleWindow ==
    <<[sessionId |-> "s1", variantId |-> "A", eventType |-> "scroll", scrollPercent |-> Num(40)],
      [sessionId |-> "s1", variantId |-> "A", eventType |-> "scroll", scrollPercent |-> Num(60)],
      [sessionId |-> "s1", variantId |-> "A", eventType |-> "click", scrollPercent |-> Absent],
      [sessionId |-> "s1", variantId |-> "B", eventType |-> "scroll", scrollPercent |-> Num(90)]>>

\* A number|null that holds the mean sum/count, or null.
NullAvg == [isNull |-> TRUE, sum |-> 0, count |-> 1]
Mean(sum, count) == [isNull |-> FALSE, sum |-> sum, count |-> count]

RECURSIVE SumSeq(_)
\* scrollPercents.reduce((a, b) => a + b, 0)
SumSeq(q) == IF q = <<>> THEN 0 ELSE Head(q) + SumSeq(Tail(q))

\* Array.prototype.map over a sequence of events.
MapScroll(q) == [i \in DOMAIN q |-> q[i].scrollPercent]

\* The bucket computeVariantStats pushes an event to: variantId ?? "A", and
\* only "A" and "B" have a bucket.
BucketOf(e) == IF e.variantId = NULL THEN "A" ELSE e.variantId

byVariant(evs, v) == SelectSeq(evs, LAMBDA e : BucketOf(e) = v)

\* SessionCount counting events instead of distinct sessions.
SessionCountMutant(ve) == Len(ve)

\* sessionSet.size
SessionCount(ve) == Cardinality({ve[i].sessionId : i \in DOMAIN ve})

\* AvgScrollPercent falling back to 0 instead of null.
AvgScrollPercentMutant(scrollPercents) ==
    IF Len(scrollPercents) > 0
    THEN Mean(SumSeq([i \in DOMAIN scrollPercents |-> scrollPercents[i].v]),
              Len(scrollPercents))
    ELSE Mean(0, 1)

\* avgScroll of computeVariantStats: the mean of the numeric scrollPercent
\* values, null when there is none.
AvgScrollPercent(scrollPercents) ==
    IF Len(scrollPercents) > 0
    THEN Mean(SumSeq([i \in DOMAIN scrollPercents |-> scrollPercents[i].v]),
              Len(scrollPercents))
    ELSE NullAvg

\* One entry of computeVariantStats.
StatsOf(variantId, ve) ==
    IF Len(ve) = 0
    THEN [variantId |-> variantId, totalEvents |-> 0, sessions |-> 0,
          scrollEvents |-> 0, avgScrollPercent |-> NullAvg, clickEvents |-> 0]
    ELSE LET scrollEvents == SelectSeq(ve, LAMBDA e : e.eventType = "scroll")
             scrollPercents ==
                 SelectSeq(MapScroll(scrollEvents), LAMBDA p : p.t = "number")
         IN  [variantId |-> variantId,
              totalEvents |-> Len(ve),
              sessions |-> SessionCount(ve),
              scrollEvents |-> Len(scrollEvents),
              avgScrollPercent |-> AvgScrollPercent(scrollPercents),
              clickEvents |-> Len(SelectSeq(ve, LAMBDA e : e.eventType = "click"))]

\* computeVariantStats: the entries of "A" and "B", in this order.
computeVariantStats(evs) ==
    <<StatsOf("A", byVariant(evs, "A")), StatsOf("B", byVariant(evs, "B"))>>

\* a > b for two averages that are not null.
AvgGt(a, b) == a.sum * b.count > b.sum * a.count

\* WinnerOf giving a tie to the first variant.
WinnerOfMutant(stats) ==
    IF /\ Len(stats) = 2
       /\ ~stats[1].avgScrollPercent.isNull
       /\ ~stats[2].avgScrollPercent.isNull
    THEN IF ~AvgGt(stats[2].avgScrollPercent, stats[1].avgScrollPercent)
         THEN stats[1].variantId
         ELSE stats[2].variantId
    ELSE NULL

\* winner: null unless both averages are numbers, else the first variant when
\* its average is greater and the second otherwise.
WinnerOf(stats) ==
    IF /\ Len(stats) = 2
       /\ ~stats[1].avgScrollPercent.isNull
       /\ ~stats[2].avgScrollPercent.isNull
    THEN IF AvgGt(stats[1].avgScrollPercent, stats[2].avgScrollPercent)
         THEN stats[1].variantId
         ELSE stats[2].variantId
    ELSE NULL

\* new Set(events.map((e) => e.sessionId)).size
UniqueSessions(evs) == Cardinality({evs[i].sessionId : i \in DOMAIN evs})

\* The cap of the dashboard's event list.
maxDisplayEvents == 100

\* The values of the variant filter's select.
FilterVariants == {"all", "A", "B", "unknown"}

\* String.prototype.toUpperCase on the strings that occur.
ToUpperCase(s) ==
    CASE s = "a" -> "A"
      [] s = "unknown" -> "UNKNOWN"
      [] s = "all" -> "ALL"
      [] OTHER -> s

\* variantOk of the event list's filter.
variantOk(e, filterVariant) ==
    LET v == ToUpperCase(IF e.variantId = NULL THEN "unknown" ELSE e.variantId)
    IN  IF filterVariant = "all" THEN TRUE
        ELSE IF filterVariant = "unknown" THEN v # "A" /\ v # "B"
        ELSE v = ToUpperCase(filterVariant)

\* events.slice(0, maxDisplayEvents)
baseEvents(evs) ==
    SubSeq(evs, 1, IF Len(evs) < maxDisplayEvents THEN Len(evs) ELSE maxDisplayEvents)

\* filteredEvents under a variant filter, the type filter being "all" and the
\* search box empty.
FilteredEventsOf(evs, filterVariant) ==
    SelectSeq(baseEvents(evs), LAMBDA e : variantOk(e, filterVariant))

\* Nothing derived from the window yet.
NothingDerived ==
    /\ variantStats = <<>>
    /\ uniqueSessions = 0
    /\ agentResp = <<>>
    /\ filteredEvents = <<>>
    /\ aiOutcome = <<>>
    /\ scorerIn = <<>>
    /\ scorerOut = <<>>
    /\ bySession = <<>>
    /\ pageStore = {}
    /\ currentWinner = NULL
    /\ ExtIdle

\* The dashboard before its first render of a loaded window.
StatsInit ==
    /\ StoreInit
    /\ events \in Windows
    /\ NothingDerived

\* The render after setEvents(loaded): the derived statistics, and the event
\* list as each choice of the variant filter shows it.
Render ==
    /\ variantStats = <<>>
    /\ variantStats' = computeVariantStats(events)
    /\ uniqueSessions' = UniqueSessions(events)
    /\ filteredEvents' = [f \in FilterVariants |-> FilteredEventsOf(events, f)]
    /\ currentWinner' = WinnerOf(computeVariantStats(events))
    /\ UNCHANGED <<dashVars, extVars, events, agentResp, aiOutcome, scorerVars, pageVars>>

NextStats == Render

SpecStats == StatsInit /\ [][NextStats]_vars

(* --------------------------------------------- claims on the aggregator *)

Rendered == variantStats # <<>>

\* The events of the window that belong to variant v: those tagged v and, for
\* "A", those whose variantId is missing or unrecognized.
EventsOfVariant(v) ==
    {i \in DOMAIN events :
        \/ events[i].variantId = v
        \/ v = "A" /\ events[i].variantId \notin {"A", "B"}}

StatsEntry(v) == IF v = "A" THEN variantStats[1] ELSE variantStats[2]

\* C7: a variant with no scroll-typed event in the window has
\* avgScrollPercent null, not 0.
C7_NoScrollEventsNullAvg ==
    Rendered =>
        \A v \in {"A", "B"} :
            (\A i \in EventsOfVariant(v) : events[i].eventType # "scroll") =>
                StatsEntry(v).avgScrollPercent = NullAvg

\* C7 witness: rendered statistics of a window where A has events, none of
\* them a scroll, and B has a scroll event reporting 0 percent.
C7_Witness ==
    /\ Rendered
    /\ \E i \in DOMAIN events :
           events[i].variantId = "A" /\ events[i].eventType = "click"
    /\ \A i \in EventsOfVariant("A") : events[i].eventType # "scroll"
    /\ StatsEntry("A").avgScrollPercent = NullAvg
    /\ StatsEntry("B").avgScrollPercent = Mean(0, 1)

AllTagged == \A i \in DOMAIN events : events[i].variantId \in {"A", "B"}

SessionsUnder(v) == {events[i].sessionId : i \in {j \in DOMAIN events : events[j].variantId = v}}

\* C9, as claimed: when every event is tagged "A" or "B", the sessions counts
\* of A and B add up to the number of distinct sessionIds of the window.
C9_SessionsSumIsDistinct ==
    (Rendered /\ AllTagged) =>
        StatsEntry("A").sessions + StatsEntry("B").sessions = uniqueSessions

\* C9, amended: they add up to the number of distinct sessionIds plus the
\* number of sessionIds that have events under both variants.
C9_SessionsSumCountsSharedTwice ==
    (Rendered /\ AllTagged) =>
        StatsEntry("A").sessions + StatsEntry("B").sessions =
            uniqueSessions + Cardinality(SessionsUnder("A") \cap SessionsUnder("B"))

\* C9 witness: a rendered window in which one session has events under both
\* variants.
C9_Witness ==
    /\ Rendered
    /\ AllTagged
    /\ SessionsUnder("A") \cap SessionsUnder("B") # {}

\* C14: computeVariantStats counts every event whose variantId is missing or
\* neither "A" nor "B" in bucket A, so the totalEvents of A and B add up to
\* the length of the window.
C14_TotalsSumToWindow ==
    Rendered =>
        /\ StatsEntry("A").totalEvents = Cardinality(EventsOfVariant("A"))
        /\ StatsEntry("A").totalEvents + StatsEntry("B").totalEvents = Len(events)

\* Whether the event list under variant filter f shows event e.
Shown(e, f) == \E k \in DOMAIN filteredEvents[f] : filteredEvents[f][k] = e

\* C15: every event of the displayed window is shown under exactly one of
\* the filters "A", "B" and "unknown"; one whose variantId is missing or
\* unrecognized is shown only under "unknown"; and an event is shown under
\* "A" (under "B") exactly when computeVariantStats counts it as an event of
\* that variant carrying that identifier.
C15_FilterAgreesWithAggregator ==
    Rendered =>
        \A i \in DOMAIN baseEvents(events) :
            LET e == events[i]
            IN  /\ Cardinality({f \in {"A", "B", "unknown"} : Shown(e, f)}) = 1
                /\ e.variantId \notin {"A", "B"} => Shown(e, "unknown")
                /\ \A v \in {"A", "B"} :
                       Shown(e, v) <=> (BucketOf(e) = v /\ e.variantId = v)

\* C28: the dashboard's winner is null whenever A or B has avgScrollPercent
\* null; otherwise it is the variant of strictly higher average, and B when
\* the averages are equal.
C28_WinnerByAvgScroll ==
    Rendered =>
        LET a == StatsEntry("A").avgScrollPercent
            b == StatsEntry("B").avgScrollPercent
        IN  IF a.isNull \/ b.isNull
            THEN currentWinner = NULL
            ELSE /\ a.sum * b.count > b.sum * a.count => currentWinner = "A"
                 /\ a.sum * b.count < b.sum * a.count => currentWinner = "B"
                 /\ a.sum * b.count = b.sum * a.count => currentWinner = "B"

\* C28 witness: A and B both average 40 percent and the winner is B.
C28_Witness ==
    /\ Rendered
    /\ StatsEntry("A").avgScrollPercent = Mean(40, 1)
    /\ StatsEntry("B").avgScrollPercent = Mean(40, 1)
    /\ currentWinner = "B"

(* ------------------------------------- agent and landing-agent endpoints *)

\* The key an endpoint aggregates an event under: e.variantId || "unknown".
KeyOf(e) == IF e.variantId = NULL THEN "unknown" ELSE e.variantId

RECURSIVE KeysOf(_)
\* The keys of byVariant, in the order Object.entries lists them: by first
\* occurrence in the window.
KeysOf(evs) ==
    IF evs = <<>> THEN <<>>
    ELSE LET rest == KeysOf(SubSeq(evs, 1, Len(evs) - 1))
             k == KeyOf(evs[Len(evs)])
         IN  IF \E i \in DOMAIN rest : rest[i] = k THEN rest ELSE Append(rest, k)

\* Number(e.payload.scrollPercent ?? 0) is NaN for a string that is no number.
IsNaN(p) == p.t = "string"
ToNumber(p) == IF p.t = "number" THEN p.v ELSE 0

\* The average an endpoint reports for a key: the mean of its scrolls, 0 when
\* it has none.
EndpointAvgScroll(scrolls) ==
    IF Len(scrolls) > 0
    THEN Mean(SumSeq(scrolls), Len(scrolls))
    ELSE Mean(0, 1)

\* One entry of the stats an endpoint computes.
EndpointEntry(evs, k) ==
    LET mine == SelectSeq(evs, LAMBDA e : KeyOf(e) = k)
        pushed == SelectSeq(MapScroll(SelectSeq(mine, LAMBDA e : e.eventType = "scroll")),
                            LAMBDA p : ~IsNaN(p))
        scrolls == [i \in DOMAIN pushed |-> ToNumber(pushed[i])]
    IN  [variantId |-> k,
         avgScroll |-> EndpointAvgScroll(scrolls),
         clicks |-> Len(SelectSeq(mine, LAMBDA e : e.eventType = "click"))]

\* The per-variant aggregation of the agent endpoint.
AgentStats(evs) == [i \in DOMAIN KeysOf(evs) |-> EndpointEntry(evs, KeysOf(evs)[i])]

\* The per-variant aggregation of the landing-agent endpoint (the same code).
LandingStats(evs) == [i \in DOMAIN KeysOf(evs) |-> EndpointEntry(evs, KeysOf(evs)[i])]

\* ScoreGt with the comparison turned round: the sort ascends.
ScoreGtMutant(a, b, w) ==
    (a.avgScroll.sum + w * a.clicks * a.avgScroll.count) * b.avgScroll.count
        < (b.avgScroll.sum + w * b.clicks * b.avgScroll.count) * a.avgScroll.count

\* a.score > b.score for score = avgScroll + w * clicks, the averages being
\* fractions with positive denominators.
ScoreGt(a, b, w) ==
    (a.avgScroll.sum + w * a.clicks * a.avgScroll.count) * b.avgScroll.count
        > (b.avgScroll.sum + w * b.clicks * b.avgScroll.count) * a.avgScroll.count

RECURSIVE InsertDescMutant(_, _, _)
\* InsertDesc putting an entry before the entries of equal score.
InsertDescMutant(q, x, w) ==
    IF q = <<>> THEN <<x>>
    ELSE IF ~ScoreGt(Head(q), x, w) THEN <<x>> \o q
    ELSE <<Head(q)>> \o InsertDescMutant(Tail(q), x, w)

RECURSIVE InsertDesc(_, _, _)
\* The place of x among the sorted entries q that came before it: after every
\* entry whose score is not smaller.
InsertDesc(q, x, w) ==
    IF q = <<>> THEN <<x>>
    ELSE IF ScoreGt(x, Head(q), w) THEN <<x>> \o q
    ELSE <<Head(q)>> \o InsertDesc(Tail(q), x, w)

RECURSIVE SortDesc(_, _)
\* Array.prototype.sort with (a, b) => b.score - a.score: descending, stable.
SortDesc(q, w) ==
    IF q = <<>> THEN <<>>
    ELSE InsertDesc(SortDesc(SubSeq(q, 1, Len(q) - 1), w), q[Len(q)], w)

\* The click weights of the two fallback generators.
MockWeight == 10
FallbackWeight == 8

NoStats == [variantId |-> NULL, avgScroll |-> NullAvg, clicks |-> 0]

\* buildMockSuggestion
buildMockSuggestion(stats) ==
    IF Len(stats) = 0
    THEN [fromVariant |-> "A",
          heroTitle |-> "SELF-EVOLVING WEBSITE // BUILD C",
          heroSubtitle |-> "New variant evolved from the current winner, tuned to push visitors deeper into the page and increase interaction based on live analytics.",
          primaryCta |-> "Deploy Build C",
          secondaryCta |-> "Inspect experiment logs",
          badge |-> "AGENT MODE - EVOLUTION",
          basedOn |-> NoStats,
          explanation |-> "Mock agent: assumes that high scroll + clicks correlate with better engagement."]
    ELSE LET winner == SortDesc(stats, MockWeight)[1]
         IN  [fromVariant |-> winner.variantId,
              heroTitle |-> "AUTONOMOUS GROWTH AGENT // BUILD C",
              heroSubtitle |-> "New variant evolved from the current winning variant, tuned from live scroll and click behaviour to drive deeper engagement.",
              primaryCta |-> "Deploy Build C",
              secondaryCta |-> "Inspect experiment logs",
              badge |-> "AGENT MODE - EVOLUTION",
              basedOn |-> winner,
              explanation |-> "Mock agent: uses a heuristic score (avg scroll + 10 x clicks) to choose the best-performing variant and then proposes Build C from it."]

\* avgScroll.toFixed(1), in tenths of a percent (round half up).
ToFixed1(avg) == (20 * avg.sum + avg.count) \div (2 * avg.count)

\* buildFallbackSpec with no default winner: the fields of undefined.
buildFallbackSpecMutant(stats) ==
    LET sorted == SortDesc(stats, FallbackWeight)
        winner == IF Len(sorted) > 0 THEN sorted[1] ELSE NoStats
    IN  [title |-> "A landing page that rewrites itself from live behaviour.",
         subtitle |-> "Instead of shipping static copy, cMindX watches how visitors scroll, click and drop off.",
         primaryCta |-> "View live dashboard",
         secondaryCta |-> "See how it works",
         badge |-> "Self-evolving website agent",
         stripVariant |-> winner.variantId,
         stripScrollTenths |-> ToFixed1(winner.avgScroll),
         stripClicks |-> winner.clicks,
         currentVariantLabel |-> winner.variantId]

\* buildFallbackSpec: the hero, with strip given by the three values its
\* template prints, and system.currentVariantLabel by the variant it names;
\* the rest of the spec is fixed text. The sort is in place, on the caller's
\* array.
buildFallbackSpec(stats) ==
    LET sorted == SortDesc(stats, FallbackWeight)
        winner == IF Len(sorted) > 0 THEN sorted[1]
                  ELSE [variantId |-> "A", avgScroll |-> Mean(50, 1), clicks |-> 5]
    IN  [title |-> "A landing page that rewrites itself from live behaviour.",
         subtitle |-> "Instead of shipping static copy, cMindX watches how visitors scroll, click and drop off.",
         primaryCta |-> "View live dashboard",
         secondaryCta |-> "See how it works",
         badge |-> "Self-evolving website agent",
         stripVariant |-> winner.variantId,
         stripScrollTenths |-> ToFixed1(winner.avgScroll),
         stripClicks |-> winner.clicks,
         currentVariantLabel |-> winner.variantId]

(* ------------------------------------------ the fallback generators alone *)

\* The statistics lists a generator is called with: entries of distinct keys,
\* in any order, up to MaxStats of them. Mean(20, 2) and Mean(10, 1) are one
\* average reached from different windows.
ScorerKeys == {"A", "B", "unknown"}
ScorerAvgs == {Mean(0, 1), Mean(8, 1), Mean(10, 1), Mean(20, 2)}
ScorerClicks == {0, 1}

StatsEntries == [variantId : ScorerKeys, avgScroll : ScorerAvgs, clicks : ScorerClicks]

StatsLists ==
    UNION {{q \in [1..n -> StatsEntries] :
                \A i, j \in 1..n : i # j => q[i].variantId # q[j].variantId} :
           n \in 0..MaxStats}

ScorerInit ==
    /\ StoreInit
    /\ events = <<>>
    /\ variantStats = <<>>
    /\ uniqueSessions = 0
    /\ agentResp = <<>>
    /\ filteredEvents = <<>>
    /\ aiOutcome = <<>>
    /\ scorerIn \in StatsLists
    /\ scorerOut = <<>>
    /\ bySession = <<>>
    /\ pageStore = {}
    /\ currentWinner = NULL
    /\ ExtIdle

\* A call buildMockSuggestion(stats): stats.map copies, the caller's array is
\* left as it was.
CallMockSuggestion ==
    /\ scorerOut = <<>>
    /\ scorerOut' = [fn |-> "buildMockSuggestion", arg |-> scorerIn,
                     result |-> buildMockSuggestion(scorerIn)]
    /\ UNCHANGED <<dashVars, extVars, currentWinner, events, variantStats, uniqueSessions, agentResp,
                   filteredEvents, aiOutcome, scorerIn, pageVars>>

\* A call buildFallbackSpec(stats): stats.sort leaves the caller's array
\* sorted.
CallFallbackSpec ==
    /\ scorerOut = <<>>
    /\ scorerOut' = [fn |-> "buildFallbackSpec", arg |-> scorerIn,
                     result |-> buildFallbackSpec(scorerIn)]
    /\ scorerIn' = SortDesc(scorerIn, FallbackWeight)
    /\ UNCHANGED <<dashVars, extVars, currentWinner, events, variantStats, uniqueSessions, agentResp,
                   filteredEvents, aiOutcome, pageVars>>

NextScorer ==
    \/ CallMockSuggestion
    \/ CallFallbackSpec

SpecScorer == ScorerInit /\ [][NextScorer]_vars

(* ------------------------------------- claims on the fallback generators *)

Called == scorerOut # <<>>

NonEmpty(x) == x # NULL /\ x # ""

\* C11: called with the empty statistics list, buildMockSuggestion and
\* buildFallbackSpec return a suggestion whose text fields are all non-empty
\* strings; buildMockSuggestion's basedOn is null, and buildFallbackSpec
\* prints its default winner A, 50.0 percent, 5 clicks.
C11_EmptyStatsFullSuggestion ==
    (Called /\ scorerOut.arg = <<>>) =>
        IF scorerOut.fn = "buildMockSuggestion"
        THEN /\ \A f \in {"fromVariant", "heroTitle", "heroSubtitle", "primaryCta",
                           "secondaryCta", "badge", "explanation"} :
                    NonEmpty(scorerOut.result[f])
             /\ scorerOut.result.basedOn = NoStats
        ELSE /\ \A f \in {"title", "subtitle", "primaryCta", "secondaryCta", "badge",
                           "stripVariant", "currentVariantLabel"} :
                    NonEmpty(scorerOut.result[f])
             /\ scorerOut.result.stripScrollTenths = 500
             /\ scorerOut.result.stripClicks = 5

\* C11 witness: buildFallbackSpec has returned from a call with the empty
\* list, naming variant A.
C11_Witness ==
    /\ Called
    /\ scorerOut.arg = <<>>
    /\ scorerOut.fn = "buildFallbackSpec"
    /\ scorerOut.result.stripVariant = "A"

\* score(a) >= score(b) at click weight w.
ScoreGe(a, b, w) ==
    (a.avgScroll.sum + w * a.clicks * a.avgScroll.count) * b.avgScroll.count
        >= (b.avgScroll.sum + w * b.clicks * b.avgScroll.count) * a.avgScroll.count

\* The first position of q whose score is maximal.
FirstMaximum(q, w) ==
    CHOOSE i \in DOMAIN q :
        /\ \A j \in DOMAIN q : ScoreGe(q[i], q[j], w)
        /\ \A j \in 1..(i - 1) : ~ScoreGe(q[j], q[i], w)

\* C13: called with a non-empty list, a generator picks the entry of maximal
\* score avgScroll + W * clicks, the first in input order among equals, and
\* what it returns carries that entry's variantId and statistics.
C13_WinnerIsFirstMaximum ==
    (Called /\ scorerOut.arg # <<>>) =>
        IF scorerOut.fn = "buildMockSuggestion"
        THEN LET best == scorerOut.arg[FirstMaximum(scorerOut.arg, MockWeight)]
             IN  /\ scorerOut.result.fromVariant = best.variantId
                 /\ scorerOut.result.basedOn = best
        ELSE LET best == scorerOut.arg[FirstMaximum(scorerOut.arg, FallbackWeight)]
             IN  /\ scorerOut.result.stripVariant = best.variantId
                 /\ scorerOut.result.stripScrollTenths = ToFixed1(best.avgScroll)
                 /\ scorerOut.result.stripClicks = best.clicks
                 /\ scorerOut.result.currentVariantLabel = best.variantId

\* C13 witness: buildMockSuggestion has returned from a call with two entries
\* of equal score and different statistics, naming the first.
C13_Witness ==
    /\ Called
    /\ scorerOut.fn = "buildMockSuggestion"
    /\ Len(scorerOut.arg) = 2
    /\ scorerOut.arg[1].clicks # scorerOut.arg[2].clicks
    /\ ScoreGe(scorerOut.arg[1], scorerOut.arg[2], MockWeight)
    /\ ScoreGe(scorerOut.arg[2], scorerOut.arg[1], MockWeight)
    /\ scorerOut.result.fromVariant = scorerOut.arg[1].variantId

\* What the text-generation call of a request comes to: no API key, the call
\* or JSON.parse throwing with some message, or a parsed JSON object in which
\* a field is either a non-empty string or missing.
SuggestionFields ==
    {"fromVariant", "heroTitle", "heroSubtitle", "primaryCta", "secondaryCta", "badge"}

AiParsed ==
    {[f \in SuggestionFields |-> IF f \in missing THEN NULL ELSE "ai"] :
        missing \in {{}} \cup {{f} : f \in SuggestionFields}}

\* err.message of a rejected call (possibly empty) and of JSON.parse.
CallMessages == {"fetch failed", ""}
ParseMessages == {"Unexpected token", "Unexpected end of JSON input"}

AiOutcomes ==
    {[kind |-> "nokey", message |-> NULL, parsed |-> <<>>]}
    \cup {[kind |-> "callThrows", message |-> m, parsed |-> <<>>] : m \in CallMessages}
    \cup {[kind |-> "parseThrows", message |-> m, parsed |-> <<>>] : m \in ParseMessages}
    \cup {[kind |-> "parsed", message |-> NULL, parsed |-> j] : j \in AiParsed}

\* Whether the try block of an endpoint ends in its catch.
Throws(ai) == ai.kind \in {"callThrows", "parseThrows"}

\* err?.message || dflt
MessageOr(ai, dflt) == IF ai.message = "" THEN dflt ELSE ai.message

\* The agent endpoint's "minimal validation" of the parsed object.
AgentValid(parsed) ==
    /\ parsed["heroTitle"] # NULL
    /\ parsed["heroSubtitle"] # NULL
    /\ parsed["primaryCta"] # NULL
    /\ parsed["secondaryCta"] # NULL

\* POST of the agent endpoint, the events query having returned evs.
AgentResponse(evs, ai) ==
    IF Len(evs) = 0
    THEN [endpoint |-> "agent", ok |-> FALSE, status |-> 400,
          error |-> "Not enough events yet."]
    ELSE LET stats == AgentStats(evs)
             mock == buildMockSuggestion(stats)
             ok(suggested, used, err) ==
                 [endpoint |-> "agent", ok |-> TRUE, status |-> 200, stats |-> stats,
                  suggestedVariant |-> suggested, aiUsed |-> used, aiError |-> err]
         IN  CASE ai.kind = "nokey" ->
                      ok(mock, "mock", "Missing GEMINI_API_KEY, using mock heuristic.")
               [] Throws(ai) -> ok(mock, "mock", MessageOr(ai, "Gemini call failed"))
               [] ai.kind = "parsed" /\ AgentValid(ai.parsed) ->
                      ok(ai.parsed, "gemini", NULL)
               [] OTHER ->
                      ok(mock, "mock", "Gemini returned incomplete JSON, used mock heuristic.")

\* POST of the landing-agent endpoint. The fallback sorts stats in place, so
\* the response carries the sorted array.
LandingResponse(evs, ai) ==
    IF Len(evs) = 0
    THEN [endpoint |-> "landing-agent", ok |-> FALSE, status |-> 400,
          error |-> "Not enough events yet."]
    ELSE LET stats == LandingStats(evs)
             ok(st, spec, used, err) ==
                 [endpoint |-> "landing-agent", ok |-> TRUE, status |-> 200, stats |-> st,
                  spec |-> spec, aiUsed |-> used, aiError |-> err]
         IN  CASE ai.kind = "nokey" ->
                      ok(SortDesc(stats, FallbackWeight), buildFallbackSpec(stats),
                         "fallback", "Missing GEMINI_API_KEY")
               [] Throws(ai) ->
                      ok(SortDesc(stats, FallbackWeight), buildFallbackSpec(stats),
                         "fallback", MessageOr(ai, "Gemini error"))
               [] OTHER -> ok(stats, ai.parsed, "gemini", NULL)

\* StoreErrorResponse answering ok: true.
StoreErrorResponseMutant(endpoint) ==
    [endpoint |-> endpoint, ok |-> TRUE, status |-> 200, error |-> "store error"]

\* A route answering 500 from its outer catch: getDocs rejected.
StoreErrorResponse(endpoint) ==
    [endpoint |-> endpoint, ok |-> FALSE, status |-> 500, error |-> "store error"]

\* The endpoints read neither sessionId nor ts: the windows of one session,
\* and the window of the worked example.
AgentInit ==
    /\ StoreInit
    /\ events \in {w \in Windows : \A i \in DOMAIN w : w[i].sessionId = "s1"}
                 \cup {ExampleWindow}
    /\ NothingDerived

AgentPost ==
    /\ agentResp = <<>>
    /\ \E ai \in AiOutcomes :
           /\ agentResp' = AgentResponse(events, ai)
           /\ aiOutcome' = IF Len(events) = 0 THEN aiOutcome ELSE ai
    /\ UNCHANGED <<dashVars, extVars, currentWinner, events, variantStats, uniqueSessions, filteredEvents,
                   scorerVars, pageVars>>

AgentPostStoreError ==
    /\ agentResp = <<>>
    /\ agentResp' = StoreErrorResponse("agent")
    /\ UNCHANGED <<dashVars, extVars, currentWinner, events, variantStats, uniqueSessions, filteredEvents,
                   aiOutcome, scorerVars, pageVars>>

LandingAgentPost ==
    /\ agentResp = <<>>
    /\ \E ai \in AiOutcomes :
           /\ agentResp' = LandingResponse(events, ai)
           /\ aiOutcome' = IF Len(events) = 0 THEN aiOutcome ELSE ai
    /\ UNCHANGED <<dashVars, extVars, currentWinner, events, variantStats, uniqueSessions, filteredEvents,
                   scorerVars, pageVars>>

LandingAgentPostStoreError ==
    /\ agentResp = <<>>
    /\ agentResp' = StoreErrorResponse("landing-agent")
    /\ UNCHANGED <<dashVars, extVars, currentWinner, events, variantStats, uniqueSessions, filteredEvents,
                   aiOutcome, scorerVars, pageVars>>

\* The dashboard renders the window the endpoints read.
NextAgent ==
    \/ AgentPost
    \/ AgentPostStoreError
    \/ LandingAgentPost
    \/ LandingAgentPostStoreError
    \/ Render

SpecAgent == AgentInit /\ [][NextAgent]_vars

(* ---------------------------------------------- claims on the endpoints *)

Answered == agentResp # <<>>

\* The scroll events of the window under key k that carry a numeric
\* scrollPercent.
QualifyingScrolls(k) ==
    {i \in DOMAIN events :
        /\ KeyOf(events[i]) = k
        /\ events[i].eventType = "scroll"
        /\ events[i].scrollPercent.t = "number"}

\* C8: in the stats of an ok response of the agent and landing-agent
\* endpoints, a variant with no qualifying scroll event has avgScroll null,
\* never 0.
C8_EndpointNoScrollNullAvg ==
    (Answered /\ agentResp.ok) =>
        \A i \in DOMAIN agentResp.stats :
            QualifyingScrolls(agentResp.stats[i].variantId) = {} =>
                agentResp.stats[i].avgScroll = NullAvg

\* C12: for the window of the worked example the dashboard's aggregator
\* reports A with avgScrollPercent 50, 1 click event and 3 events, and B with
\* avgScrollPercent 90, no click event and 1 event; and the heuristic scorer
\* of the agent endpoint names B as fromVariant.
C12_WorkedExample ==
    events = ExampleWindow =>
        /\ Rendered =>
               /\ ~StatsEntry("A").avgScrollPercent.isNull
               /\ StatsEntry("A").avgScrollPercent.sum
                      = 50 * StatsEntry("A").avgScrollPercent.count
               /\ StatsEntry("A").clickEvents = 1
               /\ StatsEntry("A").totalEvents = 3
               /\ ~StatsEntry("B").avgScrollPercent.isNull
               /\ StatsEntry("B").avgScrollPercent.sum
                      = 90 * StatsEntry("B").avgScrollPercent.count
               /\ StatsEntry("B").clickEvents = 0
               /\ StatsEntry("B").totalEvents = 1
        /\ (Answered /\ agentResp.endpoint = "agent" /\ agentResp.ok
                /\ agentResp.aiUsed = "mock") =>
               agentResp.suggestedVariant.fromVariant = "B"

\* C12 witness: the worked example rendered by the dashboard and answered by
\* the agent endpoint from its heuristic, which names B.
C12_Witness ==
    /\ events = ExampleWindow
    /\ Rendered
    /\ StatsEntry("A").totalEvents = 3
    /\ Answered
    /\ agentResp.endpoint = "agent"
    /\ agentResp.ok
    /\ agentResp.aiUsed = "mock"
    /\ agentResp.suggestedVariant.fromVariant = "B"

\* The mean of a sequence of events' numeric scrollPercent values.
MeanOfScrolls(q) == Mean(SumSeq([i \in DOMAIN q |-> q[i].scrollPercent.v]), Len(q))

\* The scroll events of a sequence that carry a numeric scrollPercent.
NumericScrolls(q) ==
    SelectSeq(q, LAMBDA e : e.eventType = "scroll" /\ e.scrollPercent.t = "number")

\* C16: a scroll event whose scrollPercent is absent or not a number adds
\* neither to the sum nor to the count of an average: wherever a variant has
\* a numeric scroll value, the average reported by computeVariantStats and by
\* the agent and landing-agent endpoints is the mean of the numeric values.
C16_MalformedScrollIgnored ==
    /\ Rendered =>
           \A v \in {"A", "B"} :
               LET q == NumericScrolls(byVariant(events, v))
               IN  q # <<>> => StatsEntry(v).avgScrollPercent = MeanOfScrolls(q)
    /\ (Answered /\ agentResp.ok) =>
           \A i \in DOMAIN agentResp.stats :
               LET k == agentResp.stats[i].variantId
                   q == NumericScrolls(SelectSeq(events, LAMBDA e : KeyOf(e) = k))
               IN  q # <<>> => agentResp.stats[i].avgScroll = MeanOfScrolls(q)

\* C18: a response of the agent endpoint with aiUsed "gemini" carries a
\* suggestion in which fromVariant, heroTitle, heroSubtitle, primaryCta,
\* secondaryCta and badge are all present and non-empty.
C18_GeminiSuggestionComplete ==
    (Answered /\ agentResp.endpoint = "agent" /\ agentResp.ok
        /\ agentResp.aiUsed = "gemini") =>
        \A f \in SuggestionFields : NonEmpty(agentResp.suggestedVariant[f])

\* The kind of reason an aiError text names.
ErrorKind(text) ==
    CASE text \in {"Missing GEMINI_API_KEY, using mock heuristic.", "Missing GEMINI_API_KEY"} ->
             "missing credential"
      [] text = "Gemini returned incomplete JSON, used mock heuristic." ->
             "invalid response shape"
      [] OTHER -> "call failed"

\* The kind of failure a text-generation outcome is.
FailureKind(ai) ==
    CASE ai.kind = "nokey" -> "missing credential"
      [] ai.kind = "callThrows" -> "call failed"
      [] ai.kind = "parseThrows" -> "invalid response shape"
      [] ai.kind = "parsed" /\ \E f \in SuggestionFields : ai.parsed[f] = NULL ->
             "invalid response shape"
      [] OTHER -> "none"

\* C20: in an ok response of the agent and landing-agent endpoints aiError is
\* absent exactly when the content is the AI's, and otherwise names the kind
\* of the failure that happened: missing credential, call failed, or invalid
\* response shape for a JSON-parse failure and for a missing key.
C20_AiErrorNamesCause ==
    (Answered /\ agentResp.ok) =>
        /\ agentResp.aiError = NULL <=> agentResp.aiUsed = "gemini"
        /\ agentResp.aiError # NULL =>
               ErrorKind(agentResp.aiError) = FailureKind(aiOutcome)

(* ------------------------------------ persona-page and landing-page *)

\* The two endpoints read sessionId, eventType and payload.scrollPercent of
\* an event, not its variantId: the windows of variant A.
SessionWindows ==
    UNION {[1..n -> {e \in AnalyticsEvent : e.variantId = "A"}] :
           n \in 0..MaxSessionEvents}

\* RunningAvg taking null for 0.
RunningAvgMutant(avg, value) ==
    IF avg.isNull THEN Mean(value, 2)
    ELSE Mean(avg.sum + value * avg.count, 2 * avg.count)

\* s.avgScroll after a numeric scroll value: the value itself when avgScroll
\* is null, (s.avgScroll + value) / 2 otherwise.
RunningAvg(avg, value) ==
    IF avg.isNull THEN Mean(value, 1)
    ELSE Mean(avg.sum + value * avg.count, 2 * avg.count)

\* The body of the aggregation loop for event e, on e's session entry.
UpdateSession(s, e) ==
    LET scrolled ==
            IF e.eventType = "scroll" /\ e.scrollPercent.t = "number"
            THEN [s EXCEPT !.avgScroll = RunningAvg(@, e.scrollPercent.v)]
            ELSE s
    IN  IF e.eventType = "click"
        THEN [scrolled EXCEPT !.clicks = @ + 1]
        ELSE scrolled

RECURSIVE BySession(_)
\* Object.values(bySession) after the loop over evs: one entry per sessionId,
\* in the order of first occurrence.
BySession(evs) ==
    IF evs = <<>> THEN <<>>
    ELSE LET prev == BySession(SubSeq(evs, 1, Len(evs) - 1))
             e == evs[Len(evs)]
             entries ==
                 IF \E i \in DOMAIN prev : prev[i].sessionId = e.sessionId
                 THEN prev
                 ELSE Append(prev, [sessionId |-> e.sessionId,
                                    avgScroll |-> NullAvg, clicks |-> 0])
         IN  [i \in DOMAIN entries |->
                 IF entries[i].sessionId = e.sessionId
                 THEN UpdateSession(entries[i], e)
                 ELSE entries[i]]

\* The sum of two fractions.
FracAdd(x, y) ==
    [isNull |-> FALSE, sum |-> x.sum * y.count + y.sum * x.count,
     count |-> x.count * y.count]

RECURSIVE SumAvgScroll(_)
\* reduce((sum, s) => sum + (s.avgScroll || 0), 0)
SumAvgScroll(q) ==
    IF q = <<>> THEN Mean(0, 1)
    ELSE FracAdd(SumAvgScroll(Tail(q)), Head(q).avgScroll)

RECURSIVE SumClicks(_)
\* reduce((sum, s) => sum + s.clicks, 0)
SumClicks(q) == IF q = <<>> THEN 0 ELSE Head(q).clicks + SumClicks(Tail(q))

\* The thresholds of the persona-page's rough categories.
SkimmerBelow == 30
DeepReaderFrom == 70
ClickyFrom == 3

\* behaviourSummary of a non-empty list of sessions; skimmers, deepReaders
\* and clicky are the persona-page's.
BehaviourSummary(sessions) ==
    LET scrolled == SelectSeq(sessions, LAMBDA x : ~x.avgScroll.isNull)
        total == SumAvgScroll(scrolled)
    IN  [totalSessions |-> Len(sessions),
         avgScrollAll |-> IF Len(scrolled) > 0
                          THEN Mean(total.sum, total.count * Len(scrolled))
                          ELSE NullAvg,
         avgClicksAll |-> Mean(SumClicks(sessions), Len(sessions)),
         skimmers |-> Len(SelectSeq(sessions,
                        LAMBDA x : x.avgScroll.sum < SkimmerBelow * x.avgScroll.count)),
         deepReaders |-> Len(SelectSeq(sessions,
                        LAMBDA x : x.avgScroll.sum >= DeepReaderFrom * x.avgScroll.count)),
         clicky |-> Len(SelectSeq(sessions, LAMBDA x : x.clicks >= ClickyFrom))]

\* What the text-generation call of a page request comes to: as for the agent
\* endpoints, the parsed object carrying a slug and a heroTitle or missing
\* one of them.
PageAiOutcomes ==
    {[kind |-> "nokey", message |-> NULL, parsed |-> <<>>]}
    \cup {[kind |-> "callThrows", message |-> m, parsed |-> <<>>] : m \in CallMessages}
    \cup {[kind |-> "parseThrows", message |-> m, parsed |-> <<>>] : m \in ParseMessages}
    \cup {[kind |-> "parsed", message |-> NULL, parsed |-> j] :
            j \in {[slug |-> "page-1", heroTitle |-> "ai"],
                   [slug |-> "page-1", heroTitle |-> NULL],
                   [slug |-> NULL, heroTitle |-> "ai"]}}

\* Whether a page request reaches setDoc.
ReachesSetDoc(evs, ai) == Len(evs) > 0 /\ ai.kind = "parsed" /\ ai.parsed.slug # NULL

\* The collection an endpoint writes to, and its message for an empty window.
PageCollection(endpoint) ==
    IF endpoint = "persona-page" THEN "personaPages" ELSE "landingPages"

NotEnoughData(endpoint) ==
    IF endpoint = "persona-page"
    THEN "Not enough data to build personas yet."
    ELSE "Not enough data to build a landing page yet."

\* POST of persona-page or landing-page, the events query having returned evs
\* and setDoc, if reached, resolving.
PageResponse(endpoint, evs, ai) ==
    LET failed(status, error) ==
            [endpoint |-> endpoint, ok |-> FALSE, status |-> status, error |-> error]
    IN  CASE Len(evs) = 0 -> failed(400, NotEnoughData(endpoint))
          [] Len(evs) > 0 /\ ai.kind = "nokey" -> failed(500, "Missing GEMINI_API_KEY")
          [] Len(evs) > 0 /\ Throws(ai) -> failed(500, ai.message)
          [] ReachesSetDoc(evs, ai) ->
                 [endpoint |-> endpoint, ok |-> TRUE, status |-> 200,
                  slug |-> ai.parsed.slug, page |-> ai.parsed]
          [] OTHER -> failed(500, "Model did not return a slug")

\* The document setDoc writes.
PageDoc(endpoint, evs, ai) ==
    [collection |-> PageCollection(endpoint), slug |-> ai.parsed.slug,
     page |-> ai.parsed, behaviourSummary |-> BehaviourSummary(BySession(evs))]

PagesInit ==
    /\ StoreInit
    /\ events \in SessionWindows
    /\ NothingDerived

\* A page request whose store calls resolve.
PagePost(endpoint) ==
    /\ agentResp = <<>>
    /\ \E ai \in PageAiOutcomes :
           /\ agentResp' = PageResponse(endpoint, events, ai)
           /\ aiOutcome' = IF Len(events) = 0 THEN aiOutcome ELSE ai
           /\ pageStore' = IF ReachesSetDoc(events, ai)
                           THEN pageStore \cup {PageDoc(endpoint, events, ai)}
                           ELSE pageStore
    /\ bySession' = BySession(events)
    /\ UNCHANGED <<dashVars, extVars, currentWinner, events, variantStats, uniqueSessions, filteredEvents,
                   scorerVars>>

\* A page request whose getDocs rejects.
PagePostStoreError(endpoint) ==
    /\ agentResp = <<>>
    /\ agentResp' = StoreErrorResponse(endpoint)
    /\ UNCHANGED <<dashVars, extVars, currentWinner, events, variantStats, uniqueSessions, filteredEvents,
                   aiOutcome, scorerVars, pageVars>>

\* A page request whose setDoc rejects.
PagePostWriteError(endpoint) ==
    /\ agentResp = <<>>
    /\ \E ai \in PageAiOutcomes :
           /\ ReachesSetDoc(events, ai)
           /\ aiOutcome' = ai
    /\ agentResp' = StoreErrorResponse(endpoint)
    /\ bySession' = BySession(events)
    /\ UNCHANGED <<dashVars, extVars, currentWinner, events, variantStats, uniqueSessions, filteredEvents,
                   scorerVars, pageStore>>

PersonaPagePost == PagePost("persona-page")
PersonaPagePostStoreError == PagePostStoreError("persona-page")
PersonaPagePostWriteError == PagePostWriteError("persona-page")
LandingPagePost == PagePost("landing-page")
LandingPagePostStoreError == PagePostStoreError("landing-page")
LandingPagePostWriteError == PagePostWriteError("landing-page")

NextPages ==
    \/ PersonaPagePost
    \/ PersonaPagePostStoreError
    \/ PersonaPagePostWriteError
    \/ LandingPagePost
    \/ LandingPagePostStoreError
    \/ LandingPagePostWriteError

SpecPages == PagesInit /\ [][NextPages]_vars

(* --------------------------------------------- claims on the page endpoints *)

\* The numeric scroll values of session sid, in window order.
SessionScrolls(sid) ==
    LET q == NumericScrolls(SelectSeq(events, LAMBDA e : e.sessionId = sid))
    IN  [i \in DOMAIN q |-> q[i].scrollPercent.v]

RECURSIVE FoldHalving(_)
\* avg := first value, then avg := (avg + value) / 2 for each later value.
FoldHalving(q) ==
    IF Len(q) = 1 THEN Mean(q[1], 1)
    ELSE LET avg == FoldHalving(SubSeq(q, 1, Len(q) - 1))
         IN  Mean(avg.sum + q[Len(q)] * avg.count, 2 * avg.count)

\* C17: the per-session aggregation of persona-page and landing-page has one
\* entry per sessionId of the window; its avgScroll is null when the session
\* has no numeric scroll value and otherwise the fold, in window order, that
\* starts with the first value and replaces avg by (avg + value) / 2 for each
\* later one; its clicks is the number of the session's click events.
C17_SessionRunningAverage ==
    bySession # <<>> =>
        /\ {bySession[i].sessionId : i \in DOMAIN bySession}
               = {events[i].sessionId : i \in DOMAIN events}
        /\ \A i, j \in DOMAIN bySession :
               i # j => bySession[i].sessionId # bySession[j].sessionId
        /\ \A i \in DOMAIN bySession :
               LET sid == bySession[i].sessionId
                   q == SessionScrolls(sid)
                   avg == bySession[i].avgScroll
               IN  /\ avg.isNull <=> q = <<>>
                   /\ q # <<>> =>
                          avg.sum * FoldHalving(q).count = FoldHalving(q).sum * avg.count
                   /\ bySession[i].clicks =
                          Cardinality({k \in DOMAIN events :
                              events[k].sessionId = sid /\ events[k].eventType = "click"})

\* C17 witness: a session that scrolled 0, 40 and 40 percent, interleaved or
\* not with another session's events, is reported at 30 percent.
C17_Witness ==
    /\ bySession # <<>>
    /\ \E i \in DOMAIN bySession :
           /\ SessionScrolls(bySession[i].sessionId) = <<0, 40, 40>>
           /\ ~bySession[i].avgScroll.isNull
           /\ bySession[i].avgScroll.sum = 30 * bySession[i].avgScroll.count

\* Whether the text-generation step of a page request failed: no credential,
\* the call or the parse throwing, or the required slug missing.
PageAiFailed(ai) ==
    \/ ai.kind \in {"nokey", "callThrows", "parseThrows"}
    \/ ai.kind = "parsed" /\ ai.parsed.slug = NULL

\* C19: for a non-empty window, a request whose text-generation step fails is
\* answered ok:true with fallback content, never ok:false.
C19_AiFailureFallsBack ==
    (Answered /\ events # <<>> /\ aiOutcome # <<>> /\ PageAiFailed(aiOutcome)) =>
        agentResp.ok

(* ------------------------------------------------- the settings routes *)
(* promote-variant, get-live-variant, active-variant, promote-landing,      *)
(* active-landing and the auto-mode route. A handler that awaits the store  *)
(* once is one action per outcome of that call; promote-landing awaits two  *)
(* writes and is split between them.                                        *)

\* A request body: malformed (req.json() rejects) or a JSON object.
RequiredVariantFields == {"heroTitle", "heroSubtitle", "primaryCta", "secondaryCta"}

\* body.variant: absent, or a payload in which a required field is a
\* non-empty string or missing, and badge is given or not.
NoVariant ==
    [present |-> FALSE, heroTitle |-> NULL, heroSubtitle |-> NULL,
     primaryCta |-> NULL, secondaryCta |-> NULL, badge |-> NULL]

VariantPayloads ==
    {[present |-> TRUE,
      heroTitle |-> IF "heroTitle" \in missing THEN NULL ELSE "title",
      heroSubtitle |-> IF "heroSubtitle" \in missing THEN NULL ELSE "subtitle",
      primaryCta |-> IF "primaryCta" \in missing THEN NULL ELSE "primary",
      secondaryCta |-> IF "secondaryCta" \in missing THEN NULL ELSE "secondary",
      badge |-> b] :
        missing \in {{}} \cup {{f} : f \in RequiredVariantFields}, b \in {NULL, "badge"}}

VariantBodies ==
    [malformed : {FALSE}, variantId : {NULL, "variant-1"},
     variant : VariantPayloads \cup {NoVariant}]
    \cup {[malformed |-> TRUE, variantId |-> NULL, variant |-> NoVariant]}

\* VariantValid not testing secondaryCta.
VariantValidMutant(body) ==
    /\ body.variant.present
    /\ body.variant.heroTitle # NULL
    /\ body.variant.heroSubtitle # NULL
    /\ body.variant.primaryCta # NULL

\* The "basic validation" of promote-variant.
VariantValid(body) ==
    /\ body.variant.present
    /\ body.variant.heroTitle # NULL
    /\ body.variant.heroSubtitle # NULL
    /\ body.variant.primaryCta # NULL
    /\ body.variant.secondaryCta # NULL

\* The document promote-variant writes to settings/liveVariant (promotedAt
\* left out): body.variantId || `live-${Date.now()}`, badge ?? "AI Variant".
LiveVariantDoc(body) ==
    [variantId |-> IF body.variantId = NULL THEN "live-now" ELSE body.variantId,
     heroTitle |-> body.variant.heroTitle,
     heroSubtitle |-> body.variant.heroSubtitle,
     primaryCta |-> body.variant.primaryCta,
     secondaryCta |-> body.variant.secondaryCta,
     badge |-> IF body.variant.badge = NULL THEN "AI Variant" ELSE body.variant.badge]

\* A response {ok: false, error} with a status.
Failed(endpoint, status, error) ==
    [endpoint |-> endpoint, ok |-> FALSE, status |-> status, error |-> error]

\* The message of the error req.json() rejects with.
BadJsonMessage == "Unexpected end of JSON input"

\* One more request reaches the settings routes.
Receive(endpoint, body) ==
    /\ requests < MaxRequests
    /\ requests' = requests + 1
    /\ routeReq' = [endpoint |-> endpoint, body |-> body]

\* What the settings routes leave alone.
RouteFrame ==
    UNCHANGED <<dashVars, events, variantStats, uniqueSessions, agentResp,
                filteredEvents, aiOutcome, scorerVars, bySession, currentWinner,
                pollVars, flagVars>>

\* POST promote-variant answered without a write: a malformed body reaches
\* the catch, an invalid payload is answered 400.
PromoteVariantRejected ==
    /\ \E body \in VariantBodies :
           /\ Receive("promote-variant", body)
           /\ body.malformed \/ ~VariantValid(body)
           /\ routeResp' = IF body.malformed
                            THEN Failed("promote-variant", 500, BadJsonMessage)
                            ELSE Failed("promote-variant", 400, "Invalid variant payload")
    /\ RouteFrame
    /\ UNCHANGED <<liveVariant, landingPointer, agentSettings, landingReqs, pageStore>>

\* POST promote-variant with a valid payload, setDoc resolving.
PromoteVariantPost ==
    /\ \E body \in VariantBodies :
           /\ Receive("promote-variant", body)
           /\ ~body.malformed
           /\ VariantValid(body)
           /\ liveVariant' = LiveVariantDoc(body)
           /\ routeResp' = [endpoint |-> "promote-variant", ok |-> TRUE, status |-> 200,
                             variantId |-> LiveVariantDoc(body).variantId]
    /\ RouteFrame
    /\ UNCHANGED <<landingPointer, agentSettings, landingReqs, pageStore>>

\* POST promote-variant with a valid payload, setDoc rejecting.
PromoteVariantWriteError ==
    /\ \E body \in VariantBodies :
           /\ ~body.malformed /\ VariantValid(body)
           /\ Receive("promote-variant", body)
    /\ routeResp' = StoreErrorResponse("promote-variant")
    /\ RouteFrame
    /\ UNCHANGED <<liveVariant, landingPointer, agentSettings, landingReqs, pageStore>>

\* GetLiveVariantResponse serving no variant whatever the document.
GetLiveVariantResponseMutant(snap) ==
    [endpoint |-> "get-live-variant", ok |-> TRUE, status |-> 200, variant |-> NoDoc]

\* { ok: true, variant: snap.data() }, or variant: null when the document
\* does not exist.
GetLiveVariantResponse(snap) ==
    [endpoint |-> "get-live-variant", ok |-> TRUE, status |-> 200, variant |-> snap]

\* GET get-live-variant, getDoc resolving.
GetLiveVariant ==
    /\ Receive("get-live-variant", <<>>)
    /\ routeResp' = GetLiveVariantResponse(liveVariant)
    /\ RouteFrame
    /\ UNCHANGED <<liveVariant, landingPointer, agentSettings, landingReqs, pageStore>>

\* GET get-live-variant, getDoc rejecting.
GetLiveVariantReadError ==
    /\ Receive("get-live-variant", <<>>)
    /\ routeResp' = StoreErrorResponse("get-live-variant")
    /\ RouteFrame
    /\ UNCHANGED <<liveVariant, landingPointer, agentSettings, landingReqs, pageStore>>

\* snap.docs[0] of the query status == "live", limit 1: the live document
\* of least id, or none.
FirstLive(store) ==
    IF \E id \in DOMAIN store : store[id] = "live"
    THEN CHOOSE id \in DOMAIN store :
             /\ store[id] = "live"
             /\ \A other \in DOMAIN store : store[other] = "live" => id <= other
    ELSE NoId

\* GET active-variant, getDocs resolving.
GetActiveVariant ==
    /\ Receive("active-variant", <<>>)
    /\ routeResp' = IF FirstLive(variants) = NoId
                     THEN [endpoint |-> "active-variant", ok |-> TRUE, status |-> 200,
                           id |-> NoId, message |-> "No live variant set"]
                     ELSE [endpoint |-> "active-variant", ok |-> TRUE, status |-> 200,
                           id |-> FirstLive(variants), message |-> NULL]
    /\ RouteFrame
    /\ UNCHANGED <<liveVariant, landingPointer, agentSettings, landingReqs, pageStore>>

\* GET active-variant, getDocs rejecting.
GetActiveVariantReadError ==
    /\ Receive("active-variant", <<>>)
    /\ routeResp' = StoreErrorResponse("active-variant")
    /\ RouteFrame
    /\ UNCHANGED <<liveVariant, landingPointer, agentSettings, landingReqs, pageStore>>

\* body of a promote-landing request: body.slug and body.spec given or not.
LandingBodies ==
    [malformed : {FALSE}, slug : {NULL, "build-1"}, spec : {NULL, "spec-1", "spec-2"}]
    \cup {[malformed |-> TRUE, slug |-> NULL, spec |-> NULL]}

\* body.slug || `landing-build-${seconds}`
LandingSlug(body) == IF body.slug = NULL THEN "landing-build-now" ELSE body.slug

\* The document written to landingPages/{slug} (createdAt and source left
\* out).
LandingDoc(body) ==
    [collection |-> "landingPages", slug |-> LandingSlug(body), spec |-> body.spec]

\* The documents of a collection under a slug: one or none.
DocsAt(store, coll, slug) == {d \in store : d.collection = coll /\ d.slug = slug}

\* SetDoc writing nothing.
SetDocMutant(store, d) == store

\* setDoc(ref, data): the document is created or replaced.
SetDoc(store, d) == (store \ DocsAt(store, d.collection, d.slug)) \cup {d}

\* POST promote-landing answered before any write: a malformed body reaches
\* the catch, a body without spec is answered 400.
PromoteLandingRejected ==
    /\ \E body \in LandingBodies :
           /\ Receive("promote-landing", body)
           /\ body.malformed \/ body.spec = NULL
           /\ routeResp' = IF body.malformed
                            THEN Failed("promote-landing", 500, BadJsonMessage)
                            ELSE Failed("promote-landing", 400, "Missing spec")
    /\ RouteFrame
    /\ UNCHANGED <<liveVariant, landingPointer, agentSettings, landingReqs, pageStore>>

\* POST promote-landing, the first setDoc (landingPages/{slug}) rejecting.
PromoteLandingFirstWriteError ==
    /\ \E body \in LandingBodies :
           /\ ~body.malformed /\ body.spec # NULL
           /\ Receive("promote-landing", body)
    /\ routeResp' = StoreErrorResponse("promote-landing")
    /\ RouteFrame
    /\ UNCHANGED <<liveVariant, landingPointer, agentSettings, landingReqs, pageStore>>

\* POST promote-landing, the first setDoc resolving. The request remembers
\* what was under its slug before.
PromoteLandingFirstWrite ==
    /\ \E body \in LandingBodies :
           /\ Receive("promote-landing", body)
           /\ ~body.malformed
           /\ body.spec # NULL
           /\ pageStore' = SetDoc(pageStore, LandingDoc(body))
           /\ landingReqs' = Append(landingReqs,
                  [slug |-> LandingSlug(body), spec |-> body.spec,
                   prevDocs |-> DocsAt(pageStore, "landingPages", LandingSlug(body)),
                   pc |-> "second", resp |-> <<>>])
    /\ RouteFrame
    /\ UNCHANGED <<liveVariant, landingPointer, agentSettings, routeResp>>

\* The second setDoc (settings/landingPage) of a request resolving.
PromoteLandingSecondWrite ==
    \E i \in DOMAIN landingReqs :
        LET r == landingReqs[i]
            resp == [endpoint |-> "promote-landing", ok |-> TRUE, status |-> 200,
                     slug |-> r.slug]
        IN  /\ r.pc = "second"
            /\ landingPointer' = [slug |-> r.slug, spec |-> r.spec]
            /\ landingReqs' = [landingReqs EXCEPT ![i].pc = "done", ![i].resp = resp]
            /\ routeResp' = resp
            /\ RouteFrame
            /\ UNCHANGED <<liveVariant, agentSettings, requests, routeReq, pageStore>>

\* The second setDoc of a request rejecting.
PromoteLandingSecondWriteError ==
    \E i \in DOMAIN landingReqs :
        /\ landingReqs[i].pc = "second"
        /\ landingReqs' = [landingReqs EXCEPT ![i].pc = "failed",
                               ![i].resp = StoreErrorResponse("promote-landing")]
        /\ routeResp' = StoreErrorResponse("promote-landing")
        /\ RouteFrame
        /\ UNCHANGED <<liveVariant, landingPointer, agentSettings, requests, routeReq, pageStore>>

\* GET active-landing, getDoc resolving.
GetActiveLanding ==
    /\ Receive("active-landing", <<>>)
    /\ routeResp' = IF landingPointer = NoDoc
                     THEN [endpoint |-> "active-landing", ok |-> TRUE, status |-> 200,
                           slug |-> NULL, spec |-> NULL,
                           message |-> "No landing page spec set"]
                     ELSE [endpoint |-> "active-landing", ok |-> TRUE, status |-> 200,
                           slug |-> landingPointer.slug, spec |-> landingPointer.spec,
                           message |-> NULL]
    /\ RouteFrame
    /\ UNCHANGED <<liveVariant, landingPointer, agentSettings, landingReqs, pageStore>>

\* GET active-landing, getDoc rejecting.
GetActiveLandingReadError ==
    /\ Receive("active-landing", <<>>)
    /\ routeResp' = StoreErrorResponse("active-landing")
    /\ RouteFrame
    /\ UNCHANGED <<liveVariant, landingPointer, agentSettings, landingReqs, pageStore>>

\* POST of the auto-mode route, updateDoc(settings/agent) resolving: the
\* document exists.
AutoModePost ==
    /\ agentSettings # NoDoc
    /\ \E autoMode \in BOOLEAN :
           /\ Receive("auto-mode", [malformed |-> FALSE, autoMode |-> autoMode])
           /\ agentSettings' = [autoMode |-> autoMode]
           /\ routeResp' = [endpoint |-> "auto-mode", ok |-> TRUE, status |-> 200,
                             autoMode |-> autoMode]
    /\ RouteFrame
    /\ UNCHANGED <<liveVariant, landingPointer, landingReqs, pageStore>>

\* POST of the auto-mode route answered from its catch: a malformed body,
\* or updateDoc rejecting (as it does when settings/agent does not exist).
AutoModePostError ==
    /\ \/ /\ Receive("auto-mode", [malformed |-> TRUE, autoMode |-> FALSE])
          /\ routeResp' = Failed("auto-mode", 500, BadJsonMessage)
       \/ /\ \E autoMode \in BOOLEAN :
                 Receive("auto-mode", [malformed |-> FALSE, autoMode |-> autoMode])
          /\ routeResp' = StoreErrorResponse("auto-mode")
    /\ RouteFrame
    /\ UNCHANGED <<liveVariant, landingPointer, agentSettings, landingReqs, pageStore>>

\* The events collection is empty; settings/agent exists or not.
RoutesInit ==
    /\ StoreInit
    /\ events = <<>>
    /\ variantStats = <<>>
    /\ uniqueSessions = 0
    /\ agentResp = <<>>
    /\ filteredEvents = <<>>
    /\ aiOutcome = <<>>
    /\ scorerIn = <<>>
    /\ scorerOut = <<>>
    /\ bySession = <<>>
    /\ pageStore = {}
    /\ currentWinner = NULL
    /\ liveVariant = NoDoc
    /\ landingPointer = NoDoc
    /\ agentSettings \in {NoDoc, [autoMode |-> FALSE]}
    /\ landingReqs = <<>>
    /\ requests = 0
    /\ routeReq = <<>>
    /\ routeResp = <<>>
    /\ loading = TRUE
    /\ polls = <<>>
    /\ lastResolved = 0
    /\ agentLoading = [c \in Clients |-> FALSE]
    /\ agentError = [c \in Clients |-> NULL]
    /\ savingVariant = [c \in Clients |-> FALSE]
    /\ saveError = [c \in Clients |-> NULL]

\* Every route handler of the application.
NextRoutes ==
    \/ PromoteVariantRejected
    \/ PromoteVariantPost
    \/ PromoteVariantWriteError
    \/ GetLiveVariant
    \/ GetLiveVariantReadError
    \/ GetActiveVariant
    \/ GetActiveVariantReadError
    \/ PromoteLandingRejected
    \/ PromoteLandingFirstWriteError
    \/ PromoteLandingFirstWrite
    \/ PromoteLandingSecondWrite
    \/ PromoteLandingSecondWriteError
    \/ GetActiveLanding
    \/ GetActiveLandingReadError
    \/ AutoModePost
    \/ AutoModePostError
    \/ AgentPost
    \/ AgentPostStoreError
    \/ LandingAgentPost
    \/ LandingAgentPostStoreError
    \/ PersonaPagePost
    \/ PersonaPagePostStoreError
    \/ LandingPagePost
    \/ LandingPagePostStoreError

SpecRoutes == RoutesInit /\ [][NextRoutes]_vars

(* -------------------------------------------------- claims on the routes *)

\* C26: the pointer settings/landingPage, when set, names a slug that has a
\* landingPages document, and holds the spec that document holds; and a
\* promote-landing request answered ok:false has changed neither document:
\* if no other request wrote under its slug, what is there is what was there
\* before it.
C26_PointerMatchesLandingPage ==
    /\ landingPointer # NoDoc =>
           \E d \in DocsAt(pageStore, "landingPages", landingPointer.slug) :
               d.spec = landingPointer.spec
    /\ \A i \in DOMAIN landingReqs :
           (/\ landingReqs[i].pc = "failed"
            /\ \A j \in DOMAIN landingReqs : j # i => landingReqs[j].slug # landingReqs[i].slug)
               => DocsAt(pageStore, "landingPages", landingReqs[i].slug)
                      = landingReqs[i].prevDocs

\* A promote-variant body that parsed and whose payload lacks variant or one
\* of the four required fields.
LacksRequired(body) ==
    /\ ~body.malformed
    /\ \/ ~body.variant.present
       \/ \E f \in RequiredVariantFields : body.variant[f] = NULL

\* The request is one of the invalid inputs to the settings routes.
InvalidInput(req) ==
    \/ req.endpoint = "promote-variant" /\ LacksRequired(req.body)
    \/ req.endpoint = "promote-landing" /\ ~req.body.malformed /\ req.body.spec = NULL

\* {ok: false, error} with status 400.
Rejected400(resp) ==
    /\ resp.ok = FALSE
    /\ resp.status = 400
    /\ resp.error # NULL

\* A generation endpoint whose events query resolved.
GenerationPost ==
    AgentPost \/ LandingAgentPost \/ PersonaPagePost \/ LandingPagePost

\* C22: invalid input is answered 400 with {ok: false, error} and nothing
\* else happens. A generation endpoint whose window is empty records no AI
\* call and writes no document; a promote-variant request whose payload lacks
\* variant or a required field, and a promote-landing request without spec,
\* leave the settings documents and the landingPages collection as they were.
C22_InvalidInputRejectedWithoutEffect ==
    [][/\ (GenerationPost /\ events = <<>>) =>
              /\ Rejected400(agentResp')
              /\ UNCHANGED <<aiOutcome, pageStore, liveVariant, landingPointer, agentSettings>>
       /\ (requests' # requests /\ InvalidInput(routeReq')) =>
              /\ Rejected400(routeResp')
              /\ routeResp'.endpoint = routeReq'.endpoint
              /\ UNCHANGED <<liveVariant, landingPointer, agentSettings, pageStore, landingReqs>>
      ]_vars

\* A payload lacking only a field was rejected after an earlier promotion,
\* whose document is still there.
C22_Witness ==
    /\ routeReq # <<>>
    /\ routeReq.endpoint = "promote-variant"
    /\ LacksRequired(routeReq.body)
    /\ routeReq.body.variant.present
    /\ routeResp.endpoint = "promote-variant"
    /\ routeResp.status = 400
    /\ liveVariant # NoDoc

\* {ok, ...} with a boolean ok, and an error text when ok is false.
WellFormed(resp) ==
    /\ resp.ok \in BOOLEAN
    /\ ~resp.ok => resp.error # NULL

\* {ok: false, error} with status 500.
Failed500(resp) ==
    /\ resp.ok = FALSE
    /\ resp.status = 500
    /\ resp.error # NULL

\* A handler's store call throws: on a generation endpoint, on a settings
\* route answered at once, on the second write of promote-landing.
GenerationStoreThrows ==
    \/ AgentPostStoreError
    \/ LandingAgentPostStoreError
    \/ PersonaPagePostStoreError
    \/ LandingPagePostStoreError
    \/ PersonaPagePostWriteError
    \/ LandingPagePostWriteError

RouteStoreThrows ==
    \/ PromoteVariantWriteError
    \/ GetLiveVariantReadError
    \/ GetActiveVariantReadError
    \/ PromoteLandingFirstWriteError
    \/ PromoteLandingSecondWriteError
    \/ GetActiveLandingReadError
    \/ (AutoModePostError /\ ~routeReq'.body.malformed)

NextLive ==
    \/ \E c \in {"c1"} :
           \/ RunAgentOk(c)
           \/ RunAgentFail(c)
           \/ SaveOk(c)
           \/ SaveFail(c)
           \/ PromoteRead(c)
           \/ PromoteReadFail(c)
           \/ PromoteCommitOk(c)
           \/ PromoteCommitFail(c)
           \/ DisableReadNone(c)
           \/ DisableReadSome(c)
           \/ DisableReadFail(c)
           \/ DisableCommitOk(c)
           \/ DisableCommitFail(c)
    \/ PromoteVariantPost
    \/ GetLiveVariant
    \/ GetActiveVariant

SpecLive == Init /\ [][NextLive]_vars

\* A step of promoteLastSavedVariant or of disableLiveVariants.
PromoteOrDisableStep ==
    \E c \in Clients :
        \/ PromoteRead(c)
        \/ PromoteReadFail(c)
        \/ PromoteCommitOk(c)
        \/ PromoteCommitFail(c)
        \/ DisableReadNone(c)
        \/ DisableReadSome(c)
        \/ DisableReadFail(c)
        \/ DisableCommitOk(c)
        \/ DisableCommitFail(c)

\* C29: a step of the dashboard's promote or disable creates and deletes no
\* variants document, changing statuses only, and leaves settings/liveVariant
\* as it was; get-live-variant serves that settings document, so what it
\* serves is the same before and after any promote or disable.
C29_PromoteDisableLeaveLiveVariantSetting ==
    [][/\ PromoteOrDisableStep =>
              /\ liveVariant' = liveVariant
              /\ Len(variants') = Len(variants)
              /\ UNCHANGED <<landingPointer, agentSettings, pageStore>>
       /\ (requests' # requests /\ routeReq'.endpoint = "get-live-variant") =>
              /\ routeResp'.variant = liveVariant
              /\ liveVariant' = liveVariant
      ]_vars

\* The two can differ: a promote made a variant live, which active-variant
\* would serve, and get-live-variant has served the settings document of an
\* earlier promote-variant request.
C29_Witness ==
    /\ promoteMessage["c1"] = PromoteOkMsg
    /\ FirstLive(variants) # NoId
    /\ liveVariant # NoDoc
    /\ routeReq # <<>>
    /\ routeReq.endpoint = "get-live-variant"
    /\ routeResp.variant = liveVariant

(* ------------------------------------------ the dashboard's agent request *)
(* runAgent and saveSuggestedVariant split at their await, with the        *)
(* in-progress flags and error texts of the page.                          *)

AgentErrMsg == "Agent failed to generate a suggestion."
SaveErrMsg == "Failed to save variant."

\* What runAgent and saveSuggestedVariant never touch.
FlagFrame ==
    UNCHANGED <<events, variantStats, uniqueSessions, filteredEvents, scorerVars,
                pageVars, currentWinner, routeVars, pollVars>>

\* runAgent up to its await: the button is disabled while agentLoading.
RunAgentStart(c) ==
    /\ ~agentLoading[c]
    /\ agentError' = [agentError EXCEPT ![c] = NULL]
    /\ agentLoading' = [agentLoading EXCEPT ![c] = TRUE]
    /\ savedVariantId' = [savedVariantId EXCEPT ![c] = NoId]
    /\ saveError' = [saveError EXCEPT ![c] = NULL]
    /\ ResetSaved(c)
    /\ UNCHANGED <<storeVars, agentData, promotePc, promoteTarget, promoteSnap,
                   disableVars, savingVariant, agentResp, aiOutcome>>
    /\ FlagFrame

\* The methods the route file of /api/agent exports.
AgentMethods == {"POST"}

\* The method of fetch("/api/agent").
RunAgentMethod == "GET"

\* The framework's answer to a method the route file does not export: 405
\* with no JSON body.
MethodNotAllowed == [endpoint |-> "agent", status |-> 405]

\* /api/agent answering a request whose store calls resolve.
Dispatch(method, evs, ai) ==
    IF method \in AgentMethods THEN AgentResponse(evs, ai) ELSE MethodNotAllowed

\* res.ok && json.ok, res.json() throwing on a response without a body.
Accepted(res) == res.status = 200 /\ res.ok

\* runAgent after its await: setAgentData, or the catch, then the finally.
RunAgentSettle(c, accepted) ==
    /\ agentLoading[c]
    /\ agentData' = IF accepted THEN [agentData EXCEPT ![c] = "suggestion"] ELSE agentData
    /\ agentError' = IF accepted THEN agentError ELSE [agentError EXCEPT ![c] = AgentErrMsg]
    /\ agentLoading' = [agentLoading EXCEPT ![c] = FALSE]
    /\ UNCHANGED <<storeVars, savedVariantId, promoteVars, disableVars, savingVariant,
                   saveError>>
    /\ FlagFrame

\* fetch resolving with the answer of /api/agent to the dashboard's request.
RunAgentResolve(c) ==
    \E ai \in AiOutcomes :
        LET res == Dispatch(RunAgentMethod, events, ai)
        IN  /\ RunAgentSettle(c, Accepted(res))
            /\ agentResp' = res
            /\ aiOutcome' = IF RunAgentMethod \in AgentMethods /\ Len(events) > 0
                             THEN ai
                             ELSE aiOutcome

\* fetch rejecting: the request never reached the server.
RunAgentReject(c) ==
    /\ RunAgentSettle(c, FALSE)
    /\ UNCHANGED <<agentResp, aiOutcome>>

\* The collection is empty, holds one event, or holds the window of the
\* worked example.
FetchInit ==
    /\ StoreInit
    /\ events \in {<<>>, ExampleWindow}
                 \cup {<<e>> : e \in {x \in AnalyticsEvent : x.sessionId = "s1"}}
    /\ NothingDerived

\* One dashboard asking for a suggestion, beside a client that posts.
NextFetch ==
    \/ \E c \in {"c1"} :
           \/ RunAgentStart(c)
           \/ RunAgentResolve(c)
           \/ RunAgentReject(c)
    \/ AgentPost
    \/ AgentPostStoreError

SpecFetch == FetchInit /\ [][NextFetch]_vars

\* C24: the request runAgent makes on a non-empty window reaches the
\* aggregation-and-suggestion handler: it is answered 200 with ok: true, stats
\* and suggestedVariant, and the dashboard holds the answer as agentData with
\* no error.
C24_RunAgentGetServed ==
    [][\A c \in Clients :
           (RunAgentResolve(c) /\ Len(events) > 0) =>
               /\ agentResp'.status = 200
               /\ agentResp'.ok
               /\ {"stats", "suggestedVariant"} \subseteq DOMAIN agentResp'
               /\ agentData'[c] # NULL
               /\ agentError'[c] = NULL
      ]_vars

(* ------------------------------------------------- the in-progress flags *)

\* runAgent, fetch resolving with an answer that carries a suggestion.
RunAgentAccepted(c) ==
    /\ RunAgentSettle(c, TRUE)
    /\ UNCHANGED <<agentResp, aiOutcome>>

\* saveSuggestedVariant up to its await: it returns at once without a
\* suggestion, and the button is disabled while savingVariant.
SaveStart(c) ==
    /\ agentData[c] # NULL
    /\ ~savingVariant[c]
    /\ Len(variants) < MaxVariants
    /\ savingVariant' = [savingVariant EXCEPT ![c] = TRUE]
    /\ saveError' = [saveError EXCEPT ![c] = NULL]
    /\ savedVariantId' = [savedVariantId EXCEPT ![c] = NoId]
    /\ ResetSaved(c)
    /\ UNCHANGED <<storeVars, agentData, promotePc, promoteTarget, promoteSnap,
                   disableVars, agentLoading, agentError, agentResp, aiOutcome>>
    /\ FlagFrame

\* addDoc resolved: setSavedVariantId, then the finally.
SaveResolved(c) ==
    /\ savingVariant[c]
    /\ variants' = Append(variants, NewVariantStatus)
    /\ savedVariantId' = [savedVariantId EXCEPT ![c] = Len(variants) + 1]
    /\ savingVariant' = [savingVariant EXCEPT ![c] = FALSE]
    /\ UNCHANGED <<agentData, promoteVars, disableVars, agentLoading, agentError,
                   saveError, agentResp, aiOutcome>>
    /\ FlagFrame

\* addDoc rejected: the catch, then the finally.
SaveRejected(c) ==
    /\ savingVariant[c]
    /\ saveError' = [saveError EXCEPT ![c] = SaveErrMsg]
    /\ savingVariant' = [savingVariant EXCEPT ![c] = FALSE]
    /\ UNCHANGED <<storeVars, saveVars, promoteVars, disableVars, agentLoading,
                   agentError, agentResp, aiOutcome>>
    /\ FlagFrame

\* The four operations of one dashboard, the agent's answer being an input.
NextFlags ==
    \E c \in {"c1"} :
        \/ RunAgentStart(c)
        \/ RunAgentAccepted(c)
        \/ RunAgentReject(c)
        \/ SaveStart(c)
        \/ SaveResolved(c)
        \/ SaveRejected(c)
        \/ PromoteRead(c)
        \/ PromoteReadFail(c)
        \/ PromoteCommitOk(c)
        \/ PromoteCommitFail(c)
        \/ DisableReadNone(c)
        \/ DisableReadSome(c)
        \/ DisableReadFail(c)
        \/ DisableCommitOk(c)
        \/ DisableCommitFail(c)

\* Every awaited call resolves or rejects.
FlagsFairness ==
    \A c \in {"c1"} :
        /\ WF_vars(RunAgentAccepted(c) \/ RunAgentReject(c))
        /\ WF_vars(SaveResolved(c) \/ SaveRejected(c))
        /\ WF_vars(PromoteCommitOk(c) \/ PromoteCommitFail(c))
        /\ WF_vars(DisableCommitOk(c) \/ DisableCommitFail(c))

SpecFlags == Init /\ [][NextFlags]_vars /\ FlagsFairness

\* Exactly one of the two is the case.
ExactlyOne(a, b) == (a /\ ~b) \/ (~a /\ b)

\* Every in-progress flag that is set is cleared later.
FlagsCleared ==
    \A c \in {"c1"} :
        /\ agentLoading[c] ~> ~agentLoading[c]
        /\ savingVariant[c] ~> ~savingVariant[c]
        /\ promoting(c) ~> ~promoting(c)
        /\ disablingLive(c) ~> ~disablingLive(c)

\* A step that completes an operation leaves exactly one of its success
\* value or message and its error message set.
OneOutcomeOnCompletion ==
    \A c \in {"c1"} :
        /\ (agentLoading[c] /\ ~agentLoading'[c]) =>
               ExactlyOne(agentData'[c] # NULL, agentError'[c] # NULL)
        /\ (savingVariant[c] /\ ~savingVariant'[c]) =>
               ExactlyOne(savedVariantId'[c] # NoId, saveError'[c] # NULL)
        /\ (PromoteReadFail(c) \/ PromoteCommitOk(c) \/ PromoteCommitFail(c)) =>
               ExactlyOne(promoteMessage'[c] # NULL, promoteError'[c] # NULL)
        /\ (DisableReadNone(c) \/ DisableReadFail(c) \/ DisableCommitOk(c)
               \/ DisableCommitFail(c)) =>
               ExactlyOne(disableMessage'[c] # NULL, disableError'[c] # NULL)

\* C30: every operation that sets an in-progress flag clears it once its
\* call resolves or rejects, and when it completes exactly one of its success
\* value or message and its error message is set, never both.
C30_FlagsClearedWithOneOutcome ==
    FlagsCleared /\ [][OneOutcomeOnCompletion]_vars

(* ------------------------------------------- claims on the error texts *)

\* The response the answering endpoint gives to the same request when the
\* text-generation call comes to ai.
ResponseTo(ai) ==
    IF agentResp.endpoint = "agent"
    THEN AgentResponse(events, ai)
    ELSE LandingResponse(events, ai)

\* C21: when parsing the AI response throws, the aiError the client receives
\* does not depend on the exception's message: the same request with any
\* other parser message is answered with the same aiError.
C21_ParseErrorTextIndependent ==
    (Answered /\ aiOutcome # <<>> /\ aiOutcome.kind = "parseThrows") =>
        \A m \in ParseMessages :
            ResponseTo([aiOutcome EXCEPT !.message = m]).aiError = agentResp.aiError

\* C27: the stats of an ok response of the landing-agent endpoint are the
\* per-variant aggregation's entries in the aggregation's order, whether the
\* fallback was used or not, as they are for the agent endpoint.
C27_ResponseStatsInAggregationOrder ==
    (Answered /\ agentResp.ok) =>
        agentResp.stats =
            IF agentResp.endpoint = "agent" THEN AgentStats(events) ELSE LandingStats(events)

(* ------------------------------------------------ the dashboard's polling *)
(* loadEvents is called on mount and then by setInterval every 5 seconds,   *)
(* whether or not earlier calls have returned; each call awaits getDocs     *)
(* once, so responses resolve or reject in any order.                       *)

\* The windows getDocs can return to a poll as the collection grows.
PollWindows ==
    {w \in Windows :
        /\ Len(w) <= 1
        /\ \A i \in DOMAIN w :
               /\ w[i].sessionId = "s1"
               /\ w[i].eventType = "click"
               /\ w[i].variantId \in {"A", "B"}}

\* setEvents keeping what is rendered once something is.
setEventsMutant(prev, loaded) == IF prev = <<>> THEN loaded ELSE prev

\* setEvents(loaded): the state takes the value given.
setEvents(prev, loaded) == loaded

\* The interval (or the mount) calls loadEvents: getDocs is sent.
PollStart ==
    /\ Len(polls) < MaxPolls
    /\ polls' = Append(polls, [status |-> "pending", loaded |-> <<>>])
    /\ UNCHANGED <<dashVars, events, variantStats, uniqueSessions, agentResp,
                   filteredEvents, aiOutcome, scorerVars, pageVars, currentWinner,
                   routeVars, loading, lastResolved, flagVars>>

\* getDocs of call i resolves: setEvents(loaded), then setLoading(false).
PollResolve ==
    \E i \in DOMAIN polls, w \in PollWindows :
        /\ polls[i].status = "pending"
        /\ polls' = [polls EXCEPT ![i] = [status |-> "resolved", loaded |-> w]]
        /\ events' = setEvents(events, w)
        /\ loading' = FALSE
        /\ lastResolved' = i
        /\ UNCHANGED <<dashVars, variantStats, uniqueSessions, agentResp,
                       filteredEvents, aiOutcome, scorerVars, pageVars, currentWinner,
                       routeVars, flagVars>>

\* getDocs of call i rejects: the catch logs, then setLoading(false).
PollReject ==
    \E i \in DOMAIN polls :
        /\ polls[i].status = "pending"
        /\ polls' = [polls EXCEPT ![i] = [status |-> "failed", loaded |-> <<>>]]
        /\ loading' = FALSE
        /\ UNCHANGED <<dashVars, events, variantStats, uniqueSessions, agentResp,
                       filteredEvents, aiOutcome, scorerVars, pageVars, currentWinner,
                       routeVars, lastResolved, flagVars>>

NextPoll ==
    \/ PollStart
    \/ PollResolve
    \/ PollReject

SpecPoll == Init /\ [][NextPoll]_vars

(* ------------------------------------------------- claims on the polling *)

\* C25: with overlapping polls, a poll's response that resolves replaces the
\* rendered events with its own window, whichever poll it answers, and
\* nothing else changes the rendered events: a rejected poll leaves them as
\* they are.
C25_LastResolvedPollRendered ==
    [][/\ \A i \in DOMAIN polls :
              (polls[i].status = "pending" /\ polls'[i].status = "resolved") =>
                  events' = polls'[i].loaded
       /\ (\A i \in DOMAIN polls :
              polls'[i].status = "resolved" => polls[i].status = "resolved") =>
                  events' = events]_vars

\* C25 witness: the second poll resolved first and was rendered, then the
\* first poll's response resolved and replaced it with a different window.
C25_Witness ==
    /\ Len(polls) >= 2
    /\ polls[1].status = "resolved"
    /\ polls[2].status = "resolved"
    /\ lastResolved = 1
    /\ polls[1].loaded # polls[2].loaded
    /\ events = polls[1].loaded

====
